---------------------------- MODULE Spec2Model ----------------------------
(***************************************************************************)
(* State-machine model of the migration worker: the SQLite work store of   *)
(* worker/db.py (claim functions, status writers, stale recovery, cleanup) *)
(* and the scheduler and processors of worker/worker.py.                   *)
(*                                                                         *)
(* The store is one variable, db, a record with one field per table; each  *)
(* table is a function from row ids to rows.  Every function of db.py is   *)
(* an operator from a store (and the clock) to the store it leaves behind; *)
(* one call of get_connection() is one transaction and so one step.        *)
(* Time is counted in seconds.                                             *)
(***************************************************************************)
EXTENDS Integers, Sequences, FiniteSets, TLC

VARIABLES
    db,         \* the work store: [table name -> [row id -> row]]
    now,        \* the wall clock, in seconds (time.time(), datetime('now'))
    call,       \* callers of the claim functions: where each is in its claim loop
    returned,   \* history: per claim function and row id, how often the row was returned
    lastOp,     \* history: the db.py function the last step ran, with its arguments
    worker,     \* worker processes: where each is in worker_loop, with its locals
    killed,     \* history: how many worker processes were killed so far
    io          \* the call or the loop a small specification follows, with its locals

vars == <<db, now, call, returned, lastOp, worker, killed, io>>
\* io belongs to the small specifications only: the steps of the claim
\* functions and of the workers leave it alone with either tuple.
claimVars == <<call, returned, lastOp, io>>
workerVars == <<worker, killed, io>>

(***************************************************************************)
(* Bounds of the model.                                                    *)
(***************************************************************************)
NumRows == 2        \* parent rows per table
NumCallers == 2     \* concurrent callers of one claim function
MaxTicks == 2       \* seconds the clock advances past StartTime

RowIds == 1..NumRows
Callers == 1..NumCallers
NoRow == 0          \* fetchone() returned None: no candidate row
NoCall == [pc |-> "none"]
NULL == <<>>        \* a URL column that holds no URL and no list of URLs

Range(seq) == {seq[k] : k \in DOMAIN seq}

(***************************************************************************)
(* Helpers over tables.                                                    *)
(***************************************************************************)
Rows(d, t) == DOMAIN d[t]

\* ORDER BY created_at ASC LIMIT 1 over the rows in S: every row a tie allows.
Oldest(d, t, S) ==
    {r \in S : \A q \in S : d[t][r].created_at <= d[t][q].created_at}

\* UPDATE t SET c = v WHERE id \in S
SetCol(d, t, S, c, v) ==
    [d EXCEPT ![t] = [r \in DOMAIN d[t] |->
        IF r \in S THEN [d[t][r] EXCEPT ![c] = v] ELSE d[t][r]]]

\* DELETE FROM t WHERE id \in S
DeleteRows(d, t, S) ==
    [d EXCEPT ![t] = [r \in (DOMAIN d[t]) \ S |-> d[t][r]]]

(***************************************************************************)
(* The claim functions of db.py.  Each is the same loop: SELECT the oldest *)
(* row in the claimable state, UPDATE it conditionally, return it when     *)
(* rowcount > 0, otherwise select again.  A claim function is described by *)
(* the table and column it works on, the state it claims from and to, and  *)
(* whether its UPDATE also sets updated_at.                                *)
(***************************************************************************)
claim_next_pending_task ==
    [name |-> "claim_next_pending_task", table |-> "video_tasks", col |-> "status",
     from |-> "pending", to |-> "uploading", touch |-> FALSE]

claim_next_unpublished_profile ==
    [name |-> "claim_next_unpublished_profile", table |-> "jobs", col |-> "profile_published",
     from |-> 0, to |-> -1, touch |-> FALSE]

claim_next_pending_proposal ==
    [name |-> "claim_next_pending_proposal", table |-> "proposals", col |-> "status",
     from |-> "pending", to |-> "processing", touch |-> FALSE]

claim_next_pending_gift ==
    [name |-> "claim_next_pending_gift", table |-> "gifts", col |-> "status",
     from |-> "pending", to |-> "processing", touch |-> FALSE]

claim_next_pending_migration ==
    [name |-> "claim_next_pending_migration", table |-> "migrations", col |-> "status",
     from |-> "pending", to |-> "processing", touch |-> TRUE]

ClaimFunctions ==
    {claim_next_pending_task, claim_next_unpublished_profile, claim_next_pending_proposal,
     claim_next_pending_gift, claim_next_pending_migration}

\* The WHERE clause of a claim's SELECT: the claimable rows.  The profile
\* claim also asks for profile_name IS NOT NULL.
Claimable_any_status(d, f) == Rows(d, f.table)

Claimable(d, f) ==
    {r \in Rows(d, f.table) :
        /\ d[f.table][r][f.col] = f.from
        /\ (f.table = "jobs" => d[f.table][r].profile_name # "NULL")}

\* The SELECT ... ORDER BY created_at ASC LIMIT 1 of a claim: the rows
\* fetchone() may return (none: the caller returns None).
ClaimSelect(d, f) == Oldest(d, f.table, Claimable(d, f))

\* cursor.rowcount of the conditional UPDATE ... WHERE id = ? AND <col> = <from>
ClaimRowcount_unconditional(d, f, id) ==
    IF id \in Rows(d, f.table) THEN 1 ELSE 0

ClaimRowcount(d, f, id) ==
    IF id \in Rows(d, f.table) /\ d[f.table][id][f.col] = f.from THEN 1 ELSE 0

\* The SET clause of the claim's UPDATE, applied to row id at time t.
ClaimSet(d, f, id, t) ==
    IF f.touch
    THEN SetCol(SetCol(d, f.table, {id}, f.col, f.to), f.table, {id}, "updated_at", t)
    ELSE SetCol(d, f.table, {id}, f.col, f.to)

\* The store after the conditional UPDATE of a claim.
ClaimUpdate(d, f, id, t) ==
    IF ClaimRowcount(d, f, id) > 0 THEN ClaimSet(d, f, id, t) ELSE d

(***************************************************************************)
(* Program constants.                                                      *)
(***************************************************************************)
CLEANUP_INTERVAL == 3600        \* seconds between two cleanup passes of a worker
PROFILE_STALE_MINUTES == 10     \* reset_stale_processing_profiles(older_than_minutes)
MIGRATION_STALE_MINUTES == 30   \* reset_stale_processing_migrations(older_than_minutes)

\* The clock when the model starts: time.time() is far more than one
\* CLEANUP_INTERVAL past the epoch (last_cleanup starts at 0).
StartTime == 2 * CLEANUP_INTERVAL

\* datetime('now', '-N minutes') evaluated when the clock reads t.
Cutoff(t, minutes) == t - minutes * 60

(***************************************************************************)
(* Status writers of db.py: one UPDATE each.                               *)
(***************************************************************************)
update_proposal_status(d, id, status) ==
    SetCol(d, "proposals", {id} \cap Rows(d, "proposals"), "status", status)

update_gift_status(d, id, status) ==
    SetCol(d, "gifts", {id} \cap Rows(d, "gifts"), "status", status)

update_migration_status(d, id, status, t) ==
    SetCol(SetCol(d, "migrations", {id} \cap Rows(d, "migrations"), "status", status),
           "migrations", {id} \cap Rows(d, "migrations"), "updated_at", t)

update_proposal_post_status(d, id, status) ==
    SetCol(d, "proposal_posts", {id} \cap Rows(d, "proposal_posts"), "status", status)

update_gift_post_status(d, id, status) ==
    SetCol(d, "gift_posts", {id} \cap Rows(d, "gift_posts"), "status", status)

update_migration_post_status(d, id, status) ==
    SetCol(d, "migration_posts", {id} \cap Rows(d, "migration_posts"), "status", status)

update_migration_article_status(d, id, status) ==
    SetCol(d, "migration_articles", {id} \cap Rows(d, "migration_articles"), "status", status)

update_job_profile_published(d, id, profile_blossom_url, t) ==
    SetCol(SetCol(SetCol(d, "jobs", {id} \cap Rows(d, "jobs"), "profile_published", 1),
                  "jobs", {id} \cap Rows(d, "jobs"), "profile_blossom_url",
                  profile_blossom_url),
           "jobs", {id} \cap Rows(d, "jobs"), "updated_at", t)

(***************************************************************************)
(* Stale recovery of db.py.                                                *)
(***************************************************************************)
\* One UPDATE: profiles in processing (-1) whose job's updated_at is older
\* than the cutoff go back to unpublished (0).
reset_stale_processing_profiles(d, t, older_than_minutes) ==
    SetCol(d, "jobs",
           {j \in Rows(d, "jobs") :
               /\ d.jobs[j].profile_published = -1
               /\ d.jobs[j].updated_at < Cutoff(t, older_than_minutes)},
           "profile_published", 0)

\* Parents of table pt in 'processing', and with them their children in
\* 'uploading' (table ct, foreign key fk), go back to 'pending'; no age is
\* asked for.
ResetProcessing(d, pt, ct, fk) ==
    LET processing == {p \in Rows(d, pt) : d[pt][p].status = "processing"}
        count == Cardinality(processing)
        d1 == SetCol(d, ct,
                     {q \in Rows(d, ct) :
                         /\ d[ct][q].status = "uploading"
                         /\ d[ct][q][fk] \in processing},
                     "status", "pending")
    IN  IF count > 0
        THEN SetCol(d1, pt, {p \in Rows(d1, pt) : d1[pt][p].status = "processing"},
                    "status", "pending")
        ELSE d

reset_stale_processing_proposals(d) ==
    ResetProcessing(d, "proposals", "proposal_posts", "proposal_id")

reset_stale_processing_gifts(d) ==
    ResetProcessing(d, "gifts", "gift_posts", "gift_id")

\* The migrations that are 'processing' and older than the cutoff when the
\* clock reads t.
StaleMigrations(d, t, older_than_minutes) ==
    {m \in Rows(d, "migrations") :
        /\ d.migrations[m].status = "processing"
        /\ d.migrations[m].updated_at < Cutoff(t, older_than_minutes)}

\* Four statements in one transaction, each with its own datetime('now'):
\* t1 (the count), t2 (the posts), t3 (the articles), t4 (the migrations)
\* are the clock readings of the four statements.
reset_stale_processing_migrations(d, t1, t2, t3, t4, older_than_minutes) ==
    LET count == Cardinality(StaleMigrations(d, t1, older_than_minutes))
        d2 == SetCol(d, "migration_posts",
                     {q \in Rows(d, "migration_posts") :
                         /\ d.migration_posts[q].status = "uploading"
                         /\ d.migration_posts[q].migration_id
                               \in StaleMigrations(d, t2, older_than_minutes)},
                     "status", "pending")
        d3 == SetCol(d2, "migration_articles",
                     {q \in Rows(d2, "migration_articles") :
                         /\ d2.migration_articles[q].status = "uploading"
                         /\ d2.migration_articles[q].migration_id
                               \in StaleMigrations(d2, t3, older_than_minutes)},
                     "status", "pending")
    IN  IF count > 0
        THEN SetCol(d3, "migrations", StaleMigrations(d3, t4, older_than_minutes),
                    "status", "pending")
        ELSE d

(***************************************************************************)
(* Rows as the platform fetcher inserts them (schema defaults).            *)
(***************************************************************************)
\* The picture of a profile at its source.
ProfilePictureUrl == <<"cdn", 0>>

JobRow(created, name) ==
    [status |-> "pending", secret_key_hex |-> "KEY", profile_published |-> 0,
     profile_name |-> name, profile_picture_url |-> ProfilePictureUrl,
     profile_blossom_url |-> NULL, created_at |-> created, updated_at |-> created]

\* media_items is the number of media items of the post (a row without the
\* column is read as one video); blossom_url and blossom_urls start NULL.
TaskRow(job, created) ==
    [job_id |-> job, status |-> "pending", retry_count |-> 0, created_at |-> created,
     media_items |-> 1, blossom_url |-> NULL, blossom_urls |-> NULL,
     nostr_event_id |-> NULL, error |-> NULL]

ParentRow(created) ==
    [status |-> "pending", created_at |-> created, updated_at |-> created]

\* Proposals and gifts also carry the time they expire and were claimed.
OfferRow(created, expires) ==
    [status |-> "pending", created_at |-> created, updated_at |-> created,
     expires_at |-> expires, claimed_at |-> "NULL"]

\* An expiry no run of the model reaches.
FarFuture == StartTime + 10 * CLEANUP_INTERVAL

EmptyTable == [r \in {} |-> ParentRow(0)]

EmptyStore ==
    [jobs |-> EmptyTable, video_tasks |-> EmptyTable,
     proposals |-> EmptyTable, proposal_posts |-> EmptyTable, proposal_articles |-> EmptyTable,
     gifts |-> EmptyTable, gift_posts |-> EmptyTable, gift_articles |-> EmptyTable,
     migrations |-> EmptyTable, migration_posts |-> EmptyTable,
     migration_articles |-> EmptyTable]

ClaimFn(name) == CHOOSE f \in ClaimFunctions : f.name = name
ClaimNames == {f.name : f \in ClaimFunctions}

IdleCall == [pc |-> "idle", fn |-> "none", cand |-> NoRow, lost |-> {}]

NoOp == [name |-> "none", arg |-> NoRow, rowcount |-> 0, at |-> 0]

(***************************************************************************)
(* Callers of the claim functions.  A caller enters a claim function,      *)
(* selects, updates, and either returns the row or selects again; the      *)
(* SELECT and the UPDATE are separate statements, so other callers' steps  *)
(* come between them.                                                      *)
(***************************************************************************)
ClaimEnter(c) ==
    /\ call[c].pc = "idle"
    /\ call' = [call EXCEPT ![c] = [@ EXCEPT !.pc = "select", !.cand = NoRow]]
    /\ UNCHANGED <<db, now, returned, lastOp, workerVars>>

ClaimDoSelect(c) ==
    /\ call[c].pc = "select"
    /\ LET f == ClaimFn(call[c].fn)
           S == ClaimSelect(db, f)
       IN  IF S = {}
           THEN /\ call' = [call EXCEPT ![c] = [@ EXCEPT !.pc = "idle", !.cand = NoRow]]
                /\ lastOp' = [name |-> f.name, arg |-> NoRow, rowcount |-> 0, at |-> now]
           ELSE /\ \E r \in S :
                     call' = [call EXCEPT ![c] = [@ EXCEPT !.pc = "update", !.cand = r]]
                /\ UNCHANGED lastOp
    /\ UNCHANGED <<db, now, returned, workerVars>>

ClaimDoUpdate(c) ==
    /\ call[c].pc = "update"
    /\ LET f == ClaimFn(call[c].fn)
           r == call[c].cand
           n == ClaimRowcount(db, f, r)
       IN  /\ db' = ClaimUpdate(db, f, r, now)
           /\ lastOp' = [name |-> f.name, arg |-> r, rowcount |-> n, at |-> now]
           /\ IF n > 0
              THEN /\ call' = [call EXCEPT ![c] = [@ EXCEPT !.pc = "idle"]]
                   /\ returned' = [returned EXCEPT ![f.name][r] = @ + 1]
              ELSE /\ call' = [call EXCEPT ![c] =
                                  [@ EXCEPT !.pc = "select", !.lost = @ \cup {r}]]
                   /\ UNCHANGED returned
    /\ UNCHANGED <<now, workerVars>>

(***************************************************************************)
(* SpecClaim: the claim step alone.  One claim function is under test; its *)
(* table holds NumRows rows, claimable or not, and the callers run the     *)
(* function in every interleaving of their SELECTs and UPDATEs.            *)
(***************************************************************************)
ClaimStore(f, second, first) ==
    LET created(r) == IF r = 1 THEN 0 ELSE second
        row(r) == IF f.table = "jobs" THEN JobRow(created(r), "name")
                  ELSE IF f.table = "video_tasks" THEN TaskRow(1, created(r))
                  ELSE IF f.table = "migrations" THEN ParentRow(created(r))
                  ELSE OfferRow(created(r), FarFuture)
    IN  [EmptyStore EXCEPT
           ![f.table] = [r \in RowIds |->
                           IF r = 1 THEN [row(r) EXCEPT ![f.col] = first] ELSE row(r)]]

InitClaim ==
    /\ \E f \in ClaimFunctions, second \in {0, 10}, first \in BOOLEAN :
          /\ db = ClaimStore(f, second, IF first THEN f.from ELSE f.to)
          /\ call = [c \in Callers |-> [IdleCall EXCEPT !.fn = f.name]]
    /\ now = 10
    /\ returned = [n \in ClaimNames |-> [r \in RowIds |-> 0]]
    /\ lastOp = NoOp
    /\ io = NoCall
    /\ worker = <<>>
    /\ killed = 0

NextClaim ==
    \E c \in Callers :
        \/ ClaimEnter(c)
        \/ ClaimDoSelect(c)
        \/ ClaimDoUpdate(c)

SpecClaim == InitClaim /\ [][NextClaim]_vars

(***************************************************************************)
(* SpecStore: the functions of db.py called on the store in every order,   *)
(* each call one transaction, while the clock advances.  One family of     *)
(* tables is populated: jobs (profiles), proposals, gifts or migrations,   *)
(* with parents pending or already processing since some time, and one     *)
(* post (and, for migrations, one article) per parent.                     *)
(***************************************************************************)
ChildRow(fk, parent, status) == (fk :> parent) @@ [status |-> status]

Families == {"jobs", "proposals", "gifts", "migrations"}
PostsOf(fam) == CASE fam = "proposals" -> "proposal_posts"
                  [] fam = "gifts" -> "gift_posts"
                  [] fam = "migrations" -> "migration_posts"
KeyOf(fam) == CASE fam = "proposals" -> "proposal_id"
                [] fam = "gifts" -> "gift_id"
                [] fam = "migrations" -> "migration_id"

\* Ages (seconds since updated_at) a row can have when the model starts.
InitAges(fam) ==
    CASE fam = "jobs" -> {0, PROFILE_STALE_MINUTES * 60, PROFILE_STALE_MINUTES * 60 + 1}
      [] fam = "migrations" ->
            {0, MIGRATION_STALE_MINUTES * 60, MIGRATION_STALE_MINUTES * 60 + 1}
      [] OTHER -> {0, MIGRATION_STALE_MINUTES * 60 + 1}

StoreOf(fam, st, age, post, article) ==
    IF fam = "jobs"
    THEN [EmptyStore EXCEPT !.jobs = [r \in RowIds |->
             [JobRow(StartTime - age[r], "name") EXCEPT
                 !.profile_published = IF st[r] = "processing" THEN -1 ELSE 0,
                 !.created_at = r]]]
    ELSE LET d == [EmptyStore EXCEPT
                     ![fam] = [r \in RowIds |->
                                 [(IF fam = "migrations"
                                   THEN ParentRow(StartTime - age[r])
                                   ELSE OfferRow(StartTime - age[r], FarFuture)) EXCEPT
                                     !.status = st[r], !.created_at = r]],
                     ![PostsOf(fam)] = [r \in RowIds |-> ChildRow(KeyOf(fam), r, post[r])]]
         IN  IF fam = "migrations"
             THEN [d EXCEPT !.migration_articles =
                               [r \in RowIds |-> ChildRow("migration_id", r, article[r])]]
             ELSE d

InitStore ==
    /\ \E fam \in Families :
       \E st \in [RowIds -> {"pending", "processing"}], age \in [RowIds -> InitAges(fam)] :
       \E post \in [RowIds -> IF fam = "jobs" THEN {"pending"} ELSE {"pending", "uploading"}] :
       \E article \in [RowIds -> IF fam = "migrations" THEN {"pending", "uploading"}
                                                       ELSE {"pending"}] :
          db = StoreOf(fam, st, age, post, article)
    /\ now = StartTime
    /\ call = [c \in Callers |-> IdleCall]
    /\ returned = [n \in ClaimNames |-> [r \in RowIds |-> 0]]
    /\ lastOp = NoOp
    /\ io = NoCall
    /\ worker = <<>>
    /\ killed = 0

Op(name, arg, n) == [name |-> name, arg |-> arg, rowcount |-> n, at |-> now]

Tick ==
    /\ now < StartTime + MaxTicks
    /\ now' = now + 1
    /\ lastOp' = NoOp
    /\ UNCHANGED <<db, call, returned, workerVars>>

\* A claim function run by one caller with no other step in between.
StoreClaim(f) ==
    /\ \E r \in ClaimSelect(db, f) :
          /\ db' = ClaimUpdate(db, f, r, now)
          /\ lastOp' = Op(f.name, r, ClaimRowcount(db, f, r))
    /\ UNCHANGED <<now, call, returned, workerVars>>

StoreResetProfiles ==
    /\ db' = reset_stale_processing_profiles(db, now, PROFILE_STALE_MINUTES)
    /\ lastOp' = Op("reset_stale_processing_profiles", NoRow, 0)
    /\ UNCHANGED <<now, call, returned, workerVars>>

StoreResetProposals ==
    /\ db' = reset_stale_processing_proposals(db)
    /\ lastOp' = Op("reset_stale_processing_proposals", NoRow, 0)
    /\ UNCHANGED <<now, call, returned, workerVars>>

StoreResetGifts ==
    /\ db' = reset_stale_processing_gifts(db)
    /\ lastOp' = Op("reset_stale_processing_gifts", NoRow, 0)
    /\ UNCHANGED <<now, call, returned, workerVars>>

\* The clock may pass a second boundary between two statements.
ClockReadings ==
    {t \in [1..4 -> now..(now + 1)] :
        /\ t[1] = now
        /\ \A i \in 1..3 : t[i] <= t[i + 1]
        /\ t[4] <= StartTime + MaxTicks}

StoreResetMigrations ==
    /\ \E t \in ClockReadings :
          /\ db' = reset_stale_processing_migrations(db, t[1], t[2], t[3], t[4],
                                                     MIGRATION_STALE_MINUTES)
          /\ now' = t[4]
    /\ lastOp' = Op("reset_stale_processing_migrations", NoRow, 0)
    /\ UNCHANGED <<call, returned, workerVars>>

\* The processors' writes, by any caller at any time.
StoreWriteParent(fam, id, status) ==
    /\ id \in Rows(db, fam)
    /\ db' = CASE fam = "proposals" -> update_proposal_status(db, id, status)
               [] fam = "gifts" -> update_gift_status(db, id, status)
               [] fam = "migrations" -> update_migration_status(db, id, status, now)
    /\ lastOp' = Op("update_status", id, 1)
    /\ UNCHANGED <<now, call, returned, workerVars>>

StoreWritePost(fam, id, status) ==
    /\ id \in Rows(db, PostsOf(fam))
    /\ db' = CASE fam = "proposals" -> update_proposal_post_status(db, id, status)
               [] fam = "gifts" -> update_gift_post_status(db, id, status)
               [] fam = "migrations" -> update_migration_post_status(db, id, status)
    /\ lastOp' = Op("update_post_status", id, 1)
    /\ UNCHANGED <<now, call, returned, workerVars>>

StoreWriteArticle(id, status) ==
    /\ id \in Rows(db, "migration_articles")
    /\ db' = update_migration_article_status(db, id, status)
    /\ lastOp' = Op("update_migration_article_status", id, 1)
    /\ UNCHANGED <<now, call, returned, workerVars>>

StoreProfilePublished(id) ==
    /\ id \in Rows(db, "jobs")
    /\ db' = update_job_profile_published(db, id, NULL, now)
    /\ lastOp' = Op("update_job_profile_published", id, 1)
    /\ UNCHANGED <<now, call, returned, workerVars>>

NextStore ==
    \/ Tick
    \/ \E f \in ClaimFunctions \ {claim_next_pending_task} : StoreClaim(f)
    \/ StoreResetProfiles
    \/ StoreResetProposals
    \/ StoreResetGifts
    \/ StoreResetMigrations
    \/ \E fam \in Families \ {"jobs"}, id \in RowIds, status \in {"pending", "ready"} :
          StoreWriteParent(fam, id, status)
    \/ \E fam \in Families \ {"jobs"}, id \in RowIds, status \in {"uploading", "ready"} :
          StoreWritePost(fam, id, status)
    \/ \E id \in RowIds, status \in {"uploading", "ready"} : StoreWriteArticle(id, status)
    \/ \E id \in RowIds : StoreProfilePublished(id)

SpecStore == InitStore /\ [][NextStore]_vars

(***************************************************************************)
(* worker/worker.py: configuration.                                        *)
(***************************************************************************)
MAX_RETRIES == 3
POLL_INTERVAL == 5
MAX_UPLOAD_ATTEMPTS == 5
NOSTR_RELAYS == {"relay.primal.net", "relay.damus.io", "nos.lol"}

NumWorkers == 2     \* worker processes on the same store
NumSlots == 1       \* CONCURRENCY (3 unless set): task coroutines per worker
MaxKills == 1       \* worker processes killed and started again, in all
MaxHours == 1       \* cleanup intervals the clock advances past StartTime

Workers == 1..NumWorkers
Slots == 1..NumSlots

(***************************************************************************)
(* Task and job writers of db.py.                                          *)
(***************************************************************************)
\* update_task_status: one UPDATE that sets status, blossom_url,
\* blossom_urls, nostr_event_id and error every time (an argument left out
\* is NULL); with increment_retry the same UPDATE also sets
\* retry_count = retry_count + 1.
update_task_status_without_error(d, id, status, blossom_url, blossom_urls, nostr_event_id, error, increment_retry) ==
    LET S  == {id} \cap Rows(d, "video_tasks")
        d0 == SetCol(SetCol(SetCol(d, "video_tasks", S, "blossom_url", blossom_url),
                            "video_tasks", S, "blossom_urls", blossom_urls),
                     "video_tasks", S, "nostr_event_id", nostr_event_id)
        d1 == SetCol(d0, "video_tasks", S, "status", status)
    IN  IF increment_retry /\ S # {}
        THEN SetCol(d1, "video_tasks", S, "retry_count", d.video_tasks[id].retry_count + 1)
        ELSE d1

update_task_status(d, id, status, blossom_url, blossom_urls, nostr_event_id, error, increment_retry) ==
    LET S  == {id} \cap Rows(d, "video_tasks")
        d0 == SetCol(SetCol(SetCol(SetCol(d, "video_tasks", S, "blossom_url", blossom_url),
                                   "video_tasks", S, "blossom_urls", blossom_urls),
                            "video_tasks", S, "nostr_event_id", nostr_event_id),
                     "video_tasks", S, "error", error)
        d1 == SetCol(d0, "video_tasks", S, "status", status)
    IN  IF increment_retry /\ S # {}
        THEN SetCol(d1, "video_tasks", S, "retry_count", d.video_tasks[id].retry_count + 1)
        ELSE d1

\* get_task_retry_count: the stored value, 0 when the row is gone.
get_task_retry_count_no_row(d, id) == 0

get_task_retry_count(d, id) ==
    IF id \in Rows(d, "video_tasks") THEN d.video_tasks[id].retry_count ELSE 0

\* The status UPDATE of update_job_status without the scrubbing of the key.
update_job_status_keeps_key(d, job_id, t) ==
    LET tasks     == {x \in Rows(d, "video_tasks") : d.video_tasks[x].job_id = job_id}
        completed == {x \in tasks : d.video_tasks[x].status = "complete"}
        errors    == {x \in tasks : d.video_tasks[x].status = "error"}
        new_status == IF tasks = completed THEN "complete"
                      ELSE IF tasks = completed \cup errors
                           THEN (IF completed # {} THEN "complete" ELSE "error")
                           ELSE "processing"
        J  == {job_id} \cap Rows(d, "jobs")
    IN  IF tasks = {} THEN d
        ELSE SetCol(SetCol(d, "jobs", J, "status", new_status), "jobs", J, "updated_at", t)

\* update_job_status: the job's status from the counts of its posts; the key
\* is scrubbed when the job is complete or error.  With no post at all the
\* sums are NULL and the function raises before its UPDATE.
\* The count query of update_job_status and what it makes of new_status;
\* without a task the sums are None and the comparison raises.
JobNewStatus(d, job_id) ==
    LET tasks     == {x \in Rows(d, "video_tasks") : d.video_tasks[x].job_id = job_id}
        total     == Cardinality(tasks)
        completed == Cardinality({x \in tasks : d.video_tasks[x].status = "complete"})
        errors    == Cardinality({x \in tasks : d.video_tasks[x].status = "error"})
    IN  IF total = 0 THEN "raised"
        ELSE IF total = completed THEN "complete"
        ELSE IF total = completed + errors
             THEN (IF completed > 0 THEN "complete" ELSE "error")
             ELSE "processing"

\* The UPDATE of update_job_status.
JobStatusWrite(d, job_id, new_status, t) ==
    LET J  == {job_id} \cap Rows(d, "jobs")
        d1 == SetCol(SetCol(d, "jobs", J, "status", new_status), "jobs", J, "updated_at", t)
    IN  IF new_status = "raised" THEN d
        ELSE IF new_status \in {"complete", "error"}
             THEN SetCol(d1, "jobs", J, "secret_key_hex", "DELETED")
             ELSE d1

update_job_status(d, job_id, t) == JobStatusWrite(d, job_id, JobNewStatus(d, job_id), t)

(***************************************************************************)
(* Proposals and gifts: rows, article writers, cleanup.                    *)
(***************************************************************************)
CLAIMED_RETENTION_DAYS == 7

NumImages == 3      \* inline images in the Markdown of an article

\* The URL of an image at the source (image 0 is the header image) and the
\* URL upload_media_to_blossom returns for it.
CdnUrl(i) == <<"cdn", i>>
BlobOf(url) == <<"BLOSSOM_SERVER", url[2]>>

\* "blossom" in url.lower()
IsBlossom(url) == url[1] = "BLOSSOM_SERVER"

\* content_markdown is the sequence of its image references ![alt](url);
\* the text between them plays no part.  An article has a header image and
\* starts with no inline image.
ArticleRow(fk, parent) ==
    (fk :> parent) @@ [status |-> "pending", upload_attempts |-> 0,
                       image_url |-> CdnUrl(0), blossom_image_url |-> NULL,
                       content_markdown |-> <<>>,
                       inline_image_urls |-> NULL]

\* Markdown with n inline images.
MarkdownWithImages(n) == [i \in 1..n |-> CdnUrl(i)]

\* extract_markdown_images: the URLs of the image references, in order.
extract_markdown_images(markdown) == markdown

\* replace_markdown_images: every image reference whose URL is a key of
\* url_mapping gets the mapped URL.  url_mapping is the dict as the
\* sequence of its items <<key, value>>.
replace_markdown_images_none(markdown, url_mapping) == markdown

replace_markdown_images(markdown, url_mapping) ==
    [k \in DOMAIN markdown |->
        IF \E e \in Range(url_mapping) : e[1] = markdown[k]
        THEN (CHOOSE e \in Range(url_mapping) : e[1] = markdown[k])[2]
        ELSE markdown[k]]

\* update_*_article_images: one UPDATE of the three columns.
UpdateArticleImagesIn(d, t, id, blossom_image_url, content_markdown, inline_image_urls) ==
    LET S == {id} \cap Rows(d, t)
    IN  SetCol(SetCol(SetCol(d, t, S, "blossom_image_url", blossom_image_url),
                      t, S, "content_markdown", content_markdown),
               t, S, "inline_image_urls", inline_image_urls)

update_proposal_article_images(d, id, blossom_image_url, content_markdown, inline_image_urls) ==
    UpdateArticleImagesIn(d, "proposal_articles", id, blossom_image_url,
                          content_markdown, inline_image_urls)

update_gift_article_images(d, id, blossom_image_url, content_markdown, inline_image_urls) ==
    UpdateArticleImagesIn(d, "gift_articles", id, blossom_image_url,
                          content_markdown, inline_image_urls)

\* increment_*_article_attempts: UPDATE upload_attempts + 1, then SELECT it.
IncrementAttempts(d, t, id) ==
    IF id \in Rows(d, t)
    THEN SetCol(d, t, {id}, "upload_attempts", d[t][id].upload_attempts + 1)
    ELSE d

increment_proposal_article_attempts(d, id) == IncrementAttempts(d, "proposal_articles", id)
increment_gift_article_attempts(d, id) == IncrementAttempts(d, "gift_articles", id)

update_proposal_article_status(d, id, status) ==
    SetCol(d, "proposal_articles", {id} \cap Rows(d, "proposal_articles"), "status", status)

update_gift_article_status(d, id, status) ==
    SetCol(d, "gift_articles", {id} \cap Rows(d, "gift_articles"), "status", status)

\* The WHERE clause of cleanup_expired_*: expired and not claimed, or
\* claimed more than seven days ago.
Expired(d, pt, t) ==
    {p \in Rows(d, pt) :
        \/ (d[pt][p].status # "claimed" /\ d[pt][p].expires_at < t)
        \/ (d[pt][p].status = "claimed"
              /\ d[pt][p].claimed_at < t - CLAIMED_RETENTION_DAYS * 86400)}

\* The foreign keys of the schema: every post and every article names its
\* parent, and the delete of a parent cascades to them.
ForeignKeys ==
    {[child |-> "proposal_posts", key |-> "proposal_id", parent |-> "proposals"],
     [child |-> "proposal_articles", key |-> "proposal_id", parent |-> "proposals"],
     [child |-> "gift_posts", key |-> "gift_id", parent |-> "gifts"],
     [child |-> "gift_articles", key |-> "gift_id", parent |-> "gifts"],
     [child |-> "migration_posts", key |-> "migration_id", parent |-> "migrations"],
     [child |-> "migration_articles", key |-> "migration_id", parent |-> "migrations"]}

\* The child rows that name one of the parents S.
References(d, fk, S) == {q \in Rows(d, fk.child) : d[fk.child][q][fk.key] \in S}

DeleteParents_no_cascade(d, pt, S) == DeleteRows(d, pt, S)

\* DELETE FROM a parent table with foreign_keys=ON: the rows go, and with
\* them the rows of the child tables that name them.
DeleteParents(d, pt, S) ==
    [t \in DOMAIN d |->
        IF t = pt THEN DeleteRows(d, pt, S)[pt]
        ELSE IF \E fk \in ForeignKeys : fk.child = t /\ fk.parent = pt
        THEN LET fk == CHOOSE f \in ForeignKeys : f.child = t /\ f.parent = pt
             IN  DeleteRows(d, t, References(d, fk, S))[t]
        ELSE d[t]]

\* cleanup_expired_*: count (t1), delete the posts of the expired parents
\* (t2), delete the parents (t3).  The function deletes no article.
CleanupExpired(d, pt, ct, fk, t1, t2, t3) ==
    LET count == Cardinality(Expired(d, pt, t1))
        d2 == DeleteRows(d, ct, {q \in Rows(d, ct) : d[ct][q][fk] \in Expired(d, pt, t2)})
    IN  IF count > 0 THEN DeleteParents(d2, pt, Expired(d2, pt, t3)) ELSE d

cleanup_expired_proposals(d, t1, t2, t3) ==
    CleanupExpired(d, "proposals", "proposal_posts", "proposal_id", t1, t2, t3)

cleanup_expired_gifts(d, t1, t2, t3) ==
    CleanupExpired(d, "gifts", "gift_posts", "gift_id", t1, t2, t3)

\* The WHERE clause of cleanup_completed_migrations.
CompletedBefore(d, t, older_than_days) ==
    {m \in Rows(d, "migrations") :
        /\ d.migrations[m].status = "complete"
        /\ d.migrations[m].updated_at < t - older_than_days * 86400}

\* cleanup_completed_migrations: count (t1), delete the posts (t2) and the
\* articles (t3) of the old complete migrations, delete the migrations (t4).
cleanup_completed_migrations(d, t1, t2, t3, t4, older_than_days) ==
    LET count == Cardinality(CompletedBefore(d, t1, older_than_days))
        d2 == DeleteRows(d, "migration_posts",
                  {q \in Rows(d, "migration_posts") :
                      d.migration_posts[q].migration_id
                         \in CompletedBefore(d, t2, older_than_days)})
        d3 == DeleteRows(d2, "migration_articles",
                  {q \in Rows(d2, "migration_articles") :
                      d2.migration_articles[q].migration_id
                         \in CompletedBefore(d2, t3, older_than_days)})
    IN  IF count > 0
        THEN DeleteParents(d3, "migrations", CompletedBefore(d3, t4, older_than_days))
        ELSE d

(***************************************************************************)
(* Worker processes.  worker[w] is the position of worker_loop in process  *)
(* w with its locals; worker[w].slot[s] is the s-th claim_and_process_task *)
(* coroutine of the current asyncio.gather with the locals of its          *)
(* process_task.  Each step is one transaction or one awaited network      *)
(* call; a claim function is one step here, its SELECT and UPDATE being    *)
(* interleaved in SpecClaim.                                               *)
(***************************************************************************)
IdleSlot == [pc |-> "claim", task |-> NoRow, uploaded |-> FALSE, uploads |-> {},
             successful_relays |-> {}, cache_imported |-> "none", retry_count |-> 0]

NoItem == [kind |-> "none", item |-> NoRow, posts |-> {}, post |-> NoRow,
           articles |-> {}, article |-> NoRow, attempts |-> 0, all_succeeded |-> TRUE,
           rows |-> <<>>, upload_failed |-> FALSE, url_mapping |-> <<>>,
           blossom_picture_url |-> NULL, event |-> <<>>, successful_relays |-> {},
           cache_imported |-> "none"]

\* A process that has just been started: worker_loop at its first line.
StartedWorker ==
    [pc |-> "reset_proposals", last_cleanup |-> 0, now |-> 0, step |-> 0,
     processed_any |-> FALSE, held |-> NoItem, slot |-> [s \in Slots |-> IdleSlot]]

Min(S) == CHOOSE x \in S : \A y \in S : x <= y

\* The two kinds process_proposal and process_gift work on.
ProposalKind ==
    [name |-> "proposals", posts |-> "proposal_posts", articles |-> "proposal_articles",
     key |-> "proposal_id", claim |-> claim_next_pending_proposal,
     pc |-> "proposal", next |-> "gift"]

GiftKind ==
    [name |-> "gifts", posts |-> "gift_posts", articles |-> "gift_articles",
     key |-> "gift_id", claim |-> claim_next_pending_gift,
     pc |-> "gift", next |-> "tasks"]

Kinds == {ProposalKind, GiftKind}
KindOf(name) == CHOOSE k \in Kinds : k.name = name

UpdateStatus(k, d, id, status) ==
    IF k.name = "proposals" THEN update_proposal_status(d, id, status)
                            ELSE update_gift_status(d, id, status)

UpdatePostStatus(k, d, id, status) ==
    IF k.name = "proposals" THEN update_proposal_post_status(d, id, status)
                            ELSE update_gift_post_status(d, id, status)

UpdateArticleStatus(k, d, id, status) ==
    IF k.name = "proposals" THEN update_proposal_article_status(d, id, status)
                            ELSE update_gift_article_status(d, id, status)

UpdateArticleImages(k, d, id, blossom_image_url, content_markdown, inline_image_urls) ==
    IF k.name = "proposals"
    THEN update_proposal_article_images(d, id, blossom_image_url,
                                        content_markdown, inline_image_urls)
    ELSE update_gift_article_images(d, id, blossom_image_url,
                                    content_markdown, inline_image_urls)

\* get_*_posts, get_*_articles: the children of a parent, whatever their status.
GetChildren(d, ct, fk, id) == {q \in Rows(d, ct) : d[ct][q][fk] = id}

Goto(w, pc) == worker' = [worker EXCEPT ![w].pc = pc]

\* worker_loop before its while loop: both recoveries, without condition.
StartResetProposals(w) ==
    /\ worker[w].pc = "reset_proposals"
    /\ db' = reset_stale_processing_proposals(db)
    /\ Goto(w, "reset_gifts")
    /\ UNCHANGED <<now, killed, claimVars>>

StartResetGifts(w) ==
    /\ worker[w].pc = "reset_gifts"
    /\ db' = reset_stale_processing_gifts(db)
    /\ Goto(w, "loop")
    /\ UNCHANGED <<now, killed, claimVars>>

\* The top of the while loop: now = time.time(); the cleanup pass is due
\* when more than CLEANUP_INTERVAL has passed since the last one.
CleanupDue(t, last_cleanup) == t - last_cleanup > CLEANUP_INTERVAL

LoopTop(w) ==
    /\ worker[w].pc = "loop"
    /\ worker' = [worker EXCEPT
                    ![w].now = now,
                    ![w].processed_any = FALSE,
                    ![w].step = IF CleanupDue(now, worker[w].last_cleanup) THEN 1 ELSE 0,
                    ![w].pc = IF CleanupDue(now, worker[w].last_cleanup)
                              THEN "cleanup" ELSE "profile"]
    /\ UNCHANGED <<db, now, killed, claimVars>>

\* The cleanup pass: five calls of db.py, one transaction each, then
\* last_cleanup = now.
CleanupCall(d, step, t) ==
    CASE step = 1 -> cleanup_expired_proposals(d, t, t, t)
      [] step = 2 -> cleanup_expired_gifts(d, t, t, t)
      [] step = 3 -> reset_stale_processing_proposals(d)
      [] step = 4 -> reset_stale_processing_gifts(d)
      [] step = 5 -> reset_stale_processing_profiles(d, t, PROFILE_STALE_MINUTES)

CleanupPass(w) ==
    /\ worker[w].pc = "cleanup"
    /\ db' = CleanupCall(db, worker[w].step, now)
    /\ worker' = IF worker[w].step < 5
                 THEN [worker EXCEPT ![w].step = @ + 1]
                 ELSE [worker EXCEPT ![w].step = 0,
                                     ![w].last_cleanup = worker[w].now,
                                     ![w].pc = "profile"]
    /\ UNCHANGED <<now, killed, claimVars>>

\* profile = claim_next_unpublished_profile()
ClaimProfile(w) ==
    /\ worker[w].pc = "profile"
    /\ LET S == ClaimSelect(db, claim_next_unpublished_profile)
       IN  IF S = {}
           THEN /\ Goto(w, "proposal")
                /\ UNCHANGED db
           ELSE \E r \in S :
                   /\ db' = ClaimUpdate(db, claim_next_unpublished_profile, r, now)
                   /\ worker' = [worker EXCEPT ![w].pc = "process_profile",
                                               ![w].held = [NoItem EXCEPT
                                                               !.kind = "jobs",
                                                               !.item = r,
                                                               !.rows = (r :> db.jobs[r])]]
    /\ UNCHANGED <<now, killed, claimVars>>

\* What the cache server and the connection to it may do.
CacheOutcomes == {"imported", "timeout", "exception"}

\* import_to_primal_cache: True after a response, False after a timeout of
\* the recv and after any exception; nothing is raised to the caller.
import_to_primal_cache_uncaught(outcome) ==
    CASE outcome = "imported" -> "True"
      [] outcome = "timeout" -> "False"
      [] OTHER -> "raised"

import_to_primal_cache(outcome) ==
    CASE outcome = "imported" -> "True"
      [] OTHER -> "False"

\* bytes.fromhex(secret_key_hex) in get_signing_key and schnorr_sign: the
\* scrubbed key is no hex string and raises.
KeyUsable(secret_key_hex) == secret_key_hex # "DELETED"

\* create_profile_event: the content has a picture only with a picture URL.
create_profile_event(name, picture_url) ==
    [kind |-> 0,
     content |-> IF picture_url # NULL
                 THEN [name |-> name, picture |-> picture_url]
                 ELSE [name |-> name]]

\* The profile is left as it is: process_profile returns.
ProfileReturn(w) ==
    worker' = [worker EXCEPT ![w].pc = "proposal", ![w].held = NoItem,
                             ![w].processed_any = TRUE]

\* The download or the upload of the picture raised or was refused.
PictureAborts_on_failure(picture_ok) == ~picture_ok

PictureAborts(picture_ok) == FALSE

\* process_profile up to the event: the picture is uploaded, which may
\* fail and then leaves blossom_picture_url None; create_profile_event
\* signs with the key read by the claim and raises when it is scrubbed.
process_profile(w) ==
    /\ worker[w].pc = "process_profile"
    /\ LET h   == worker[w].held
           job == h.rows[h.item]
       IN  \E picture_ok \in BOOLEAN :
              LET blossom_picture_url ==
                      IF job.profile_picture_url # NULL /\ picture_ok
                            /\ KeyUsable(job.secret_key_hex)
                      THEN <<"BLOSSOM_SERVER", job.profile_picture_url[2]>>
                      ELSE NULL
              IN  IF ~KeyUsable(job.secret_key_hex) \/ PictureAborts(picture_ok)
                  THEN ProfileReturn(w)
                  ELSE worker' = [worker EXCEPT
                                    ![w].pc = "profile_publish",
                                    ![w].held.blossom_picture_url = blossom_picture_url,
                                    ![w].held.event =
                                        create_profile_event(job.profile_name,
                                                             blossom_picture_url)]
    /\ UNCHANGED <<db, now, killed, claimVars>>

\* successful_relays = await publish_to_relays(event); with none the
\* function prints and returns.
ProfilePublish(w) ==
    /\ worker[w].pc = "profile_publish"
    /\ \E accepted \in SUBSET NOSTR_RELAYS :
          IF accepted = {}
          THEN ProfileReturn(w)
          ELSE worker' = [worker EXCEPT ![w].pc = "profile_cache",
                                        ![w].held.successful_relays = accepted]
    /\ UNCHANGED <<db, now, killed, claimVars>>

\* cache_imported = await import_to_primal_cache([event])
ProfileCacheImport(w) ==
    /\ worker[w].pc = "profile_cache"
    /\ \E outcome \in CacheOutcomes :
          LET cache_imported == import_to_primal_cache(outcome)
          IN  IF cache_imported = "raised"
              THEN ProfileReturn(w)
              ELSE worker' = [worker EXCEPT ![w].pc = "profile_write",
                                            ![w].held.cache_imported = cache_imported]
    /\ UNCHANGED <<db, now, killed, claimVars>>

\* update_job_profile_published(job_id, blossom_picture_url)
ProfileWrite(w) ==
    /\ worker[w].pc = "profile_write"
    /\ db' = update_job_profile_published(db, worker[w].held.item,
                                          worker[w].held.blossom_picture_url, now)
    /\ ProfileReturn(w)
    /\ UNCHANGED <<now, killed, claimVars>>

\* proposal = claim_next_pending_proposal(); gift = claim_next_pending_gift()
ClaimOffer(w, k) ==
    /\ worker[w].pc = k.pc
    /\ LET S == ClaimSelect(db, k.claim)
       IN  IF S = {}
           THEN /\ Goto(w, k.next)
                /\ UNCHANGED db
           ELSE \E r \in S :
                   /\ db' = ClaimUpdate(db, k.claim, r, now)
                   /\ worker' = [worker EXCEPT ![w].pc = "mark",
                                               ![w].held = [NoItem EXCEPT !.kind = k.name,
                                                                          !.item = r]]
    /\ UNCHANGED <<now, killed, claimVars>>

\* process_proposal / process_gift: update_*_status(id, "processing")
OfferMark(w) ==
    /\ worker[w].pc = "mark"
    /\ db' = UpdateStatus(KindOf(worker[w].held.kind), db, worker[w].held.item, "processing")
    /\ Goto(w, "get_posts")
    /\ UNCHANGED <<now, killed, claimVars>>

\* posts = get_*_posts(id)
OfferGetPosts(w) ==
    /\ worker[w].pc = "get_posts"
    /\ LET k == KindOf(worker[w].held.kind)
       IN  worker' = [worker EXCEPT
                        ![w].held.posts = GetChildren(db, k.posts, k.key, worker[w].held.item),
                        ![w].pc = "post"]
    /\ UNCHANGED <<db, now, killed, claimVars>>

\* for post in posts: update_*_post_status(post_id, "uploading")
OfferPostStart(w) ==
    /\ worker[w].pc = "post"
    /\ LET k == KindOf(worker[w].held.kind)
           h == worker[w].held
       IN  IF h.posts = {}
           THEN /\ Goto(w, "get_articles")
                /\ UNCHANGED db
           ELSE /\ db' = UpdatePostStatus(k, db, Min(h.posts), "uploading")
                /\ worker' = [worker EXCEPT ![w].held.post = Min(h.posts),
                                            ![w].pc = "upload"]
    /\ UNCHANGED <<now, killed, claimVars>>

\* The uploads of the post's media: all succeed and the post is written
\* 'ready', or one raises and the loop continues with the next post.
OfferPostUpload(w) ==
    /\ worker[w].pc = "upload"
    /\ LET k == KindOf(worker[w].held.kind)
           h == worker[w].held
       IN  /\ \E ok \in BOOLEAN :
                 db' = IF ok THEN UpdatePostStatus(k, db, h.post, "ready") ELSE db
           /\ worker' = [worker EXCEPT ![w].held.posts = @ \ {h.post},
                                       ![w].held.post = NoRow,
                                       ![w].pc = "post"]
    /\ UNCHANGED <<now, killed, claimVars>>

\* process_*_articles: articles = get_*_articles(id); all_succeeded = True
OfferGetArticles(w) ==
    /\ worker[w].pc = "get_articles"
    /\ LET k == KindOf(worker[w].held.kind)
       IN  worker' = [worker EXCEPT
                        ![w].held.articles =
                            GetChildren(db, k.articles, k.key, worker[w].held.item),
                        ![w].held.rows =
                            [a \in GetChildren(db, k.articles, k.key, worker[w].held.item)
                                |-> db[k.articles][a]],
                        ![w].held.all_succeeded = TRUE,
                        ![w].pc = "article"]
    /\ UNCHANGED <<db, now, killed, claimVars>>

\* for article in articles: attempts = increment_*_article_attempts(id)
OfferArticleStart(w) ==
    /\ worker[w].pc = "article"
    /\ LET k == KindOf(worker[w].held.kind)
           h == worker[w].held
           a == Min(h.articles)
           d1 == IncrementAttempts(db, k.articles, a)
       IN  IF h.articles = {}
           THEN /\ worker' = [worker EXCEPT
                                ![w].held.url_mapping = <<>>,
                                ![w].held.upload_failed = FALSE,
                                ![w].pc = "final"]
                /\ UNCHANGED db
           ELSE /\ db' = d1
                /\ worker' = [worker EXCEPT
                                ![w].held.article = a,
                                ![w].held.url_mapping = <<>>,
                                ![w].held.upload_failed = FALSE,
                                ![w].held.attempts =
                                    IF a \in Rows(d1, k.articles)
                                    THEN d1[k.articles][a].upload_attempts ELSE 0,
                                ![w].pc = "article_upload"]
    /\ UNCHANGED <<now, killed, claimVars>>

\* The images of an article that an attempt uploads: the header image
\* unless it is on Blossom already, and the inline images that are not.
HeaderToUpload(article) ==
    IF article.image_url # NULL /\ article.blossom_image_url = NULL
    THEN {article.image_url} ELSE {}

InlineToUpload(article) ==
    {u \in Range(extract_markdown_images(article.content_markdown)) : ~IsBlossom(u)}

\* url_mapping[url] = result["url"] for the inline images that uploaded, in
\* the order of the Markdown.
UrlMapping(article, uploaded) ==
    LET urls == SelectSeq(extract_markdown_images(article.content_markdown),
                          LAMBDA u : u \in InlineToUpload(article) \cap uploaded)
    IN  [k \in DOMAIN urls |-> <<urls[k], BlobOf(urls[k])>>]

\* if attempts >= MAX_UPLOAD_ATTEMPTS
AttemptsExhausted(attempts) == attempts >= MAX_UPLOAD_ATTEMPTS

\* One article of process_*_articles after the increment: the uploads of
\* its images, each of which may fail, and the writes that follow.  Without
\* a failure, or with one at the last attempt, the images are written and
\* the article is 'ready'; otherwise nothing is written and all_succeeded
\* is False.
OfferArticleUpload(w) ==
    /\ worker[w].pc = "article_upload"
    /\ LET k == KindOf(worker[w].held.kind)
           h == worker[w].held
           article == h.rows[h.article]
       IN  \E uploaded \in SUBSET (HeaderToUpload(article) \cup InlineToUpload(article)) :
              LET upload_failed == uploaded # HeaderToUpload(article) \cup InlineToUpload(article)
                  blossom_header == IF HeaderToUpload(article) = {}
                                    THEN article.blossom_image_url
                                    ELSE IF article.image_url \in uploaded
                                         THEN BlobOf(article.image_url) ELSE NULL
                  url_mapping == UrlMapping(article, uploaded)
                  updated_content == IF url_mapping # <<>>
                                     THEN replace_markdown_images(article.content_markdown,
                                                                  url_mapping)
                                     ELSE article.content_markdown
                  ready == ~upload_failed \/ AttemptsExhausted(h.attempts)
              IN  /\ db' = IF ready
                           THEN UpdateArticleStatus(k,
                                    UpdateArticleImages(k, db, h.article, blossom_header,
                                                        updated_content, url_mapping),
                                    h.article, "ready")
                           ELSE db
                  /\ worker' = [worker EXCEPT
                                   ![w].held.articles = @ \ {h.article},
                                   ![w].held.article = NoRow,
                                   ![w].held.attempts = 0,
                                   ![w].held.upload_failed = upload_failed,
                                   ![w].held.url_mapping = url_mapping,
                                   ![w].held.all_succeeded = h.all_succeeded /\ ready,
                                   ![w].pc = "article"]
    /\ UNCHANGED <<now, killed, claimVars>>

\* The final status: 'pending' when an article failed, 'ready' otherwise.
OfferFinal(w) ==
    /\ worker[w].pc = "final"
    /\ LET k == KindOf(worker[w].held.kind)
           h == worker[w].held
       IN  /\ db' = UpdateStatus(k, db, h.item,
                                 IF h.all_succeeded THEN "ready" ELSE "pending")
           /\ worker' = [worker EXCEPT ![w].pc = k.next, ![w].held = NoItem,
                                       ![w].processed_any = TRUE]
    /\ UNCHANGED <<now, killed, claimVars>>

(***************************************************************************)
(* The task coroutines: asyncio.gather of CONCURRENCY calls of             *)
(* claim_and_process_task, and process_task.                               *)
(***************************************************************************)
SetSlot(w, s, rec) == worker' = [worker EXCEPT ![w].slot[s] = rec]

\* task = claim_next_pending_task(); without a task the coroutine returns False.
TaskClaim(w, s) ==
    /\ worker[w].pc = "tasks"
    /\ worker[w].slot[s].pc = "claim"
    /\ LET S == ClaimSelect(db, claim_next_pending_task)
       IN  IF S = {}
           THEN /\ SetSlot(w, s, [IdleSlot EXCEPT !.pc = "returned"])
                /\ UNCHANGED db
           ELSE \E r \in S :
                   /\ db' = ClaimUpdate(db, claim_next_pending_task, r, now)
                   /\ SetSlot(w, s, [IdleSlot EXCEPT !.pc = "start", !.task = r])
    /\ UNCHANGED <<now, killed, claimVars>>

\* process_task: update_task_status(task_id, "uploading")
TaskStart(w, s) ==
    /\ worker[w].slot[s].pc = "start"
    /\ db' = update_task_status(db, worker[w].slot[s].task, "uploading",
                                 NULL, NULL, NULL, NULL, FALSE)
    /\ worker' = [worker EXCEPT ![w].slot[s].pc = "upload"]
    /\ UNCHANGED <<now, killed, claimVars>>

\* media_items of the claimed task: the items 1..n of the post.
MediaItems(d, task) ==
    IF task \in Rows(d, "video_tasks") THEN 1..d.video_tasks[task].media_items ELSE {}

\* The URL upload_media_to_blossom returns for the i-th item.
BlobUrl(i) == <<"BLOSSOM_SERVER", i>>

\* media_uploads of a gather that did not raise, as far as the store sees it.
MediaUploads(items) == [i \in 1..Cardinality(items) |-> [url |-> BlobUrl(i)]]

\* all_blossom_urls = [m["url"] for m in media_uploads]
all_blossom_urls(media_uploads) ==
    [i \in DOMAIN media_uploads |-> media_uploads[i].url]

\* primary_blossom_url = media_uploads[0]["url"] if media_uploads else None
primary_blossom_url(media_uploads) ==
    IF media_uploads = <<>> THEN NULL ELSE media_uploads[1].url

\* json.dumps(all_blossom_urls) if len(all_blossom_urls) > 1 else None
blossom_urls_arg(media_uploads) ==
    IF Len(all_blossom_urls(media_uploads)) > 1
    THEN all_blossom_urls(media_uploads) ELSE NULL

\* asyncio.gather without return_exceptions: the gather raises as soon as
\* the upload of one item raises.  ok[i] says that item i uploaded.
UploadRaised_never(ok) == FALSE

UploadRaised_all(ok) == \A i \in DOMAIN ok : ~ok[i]

UploadRaised(ok) == \E i \in DOMAIN ok : ~ok[i]

\* The gather of the uploads, then update_task_status(task_id, "publishing").
TaskUpload(w, s) ==
    /\ worker[w].slot[s].pc = "upload"
    /\ LET task  == worker[w].slot[s].task
           items == MediaItems(db, task)
       IN  \E ok \in [items -> BOOLEAN] :
              IF UploadRaised(ok)
              THEN /\ worker' = [worker EXCEPT
                                   ![w].slot[s].pc = "except",
                                   ![w].slot[s].uploads = {i \in items : ok[i]}]
                   /\ UNCHANGED db
              ELSE /\ db' = update_task_status(db, task, "publishing",
                                               primary_blossom_url(MediaUploads(items)),
                                               blossom_urls_arg(MediaUploads(items)),
                                               NULL, NULL, FALSE)
                   /\ worker' = [worker EXCEPT
                                   ![w].slot[s].pc = "publish",
                                   ![w].slot[s].uploads = {i \in items : ok[i]},
                                   ![w].slot[s].uploaded = \A i \in items : ok[i]]
    /\ UNCHANGED <<now, killed, claimVars>>

\* if not successful_relays: raise
NoRelayAccepted_never(successful_relays) == FALSE

NoRelayAccepted(successful_relays) == successful_relays = {}

\* successful_relays = await publish_to_relays(event): the relays that
\* answered OK with true.
TaskPublish(w, s) ==
    /\ worker[w].slot[s].pc = "publish"
    /\ \E accepted \in SUBSET NOSTR_RELAYS :
          worker' = [worker EXCEPT
                       ![w].slot[s].successful_relays = accepted,
                       ![w].slot[s].pc = IF NoRelayAccepted(accepted)
                                         THEN "except" ELSE "complete"]
    /\ UNCHANGED <<db, now, killed, claimVars>>

\* event["id"] of the event of a post: the digest sign_event computed.
EventIdOfPost(task) == <<"sha256", "event", task>>

\* cache_imported = await import_to_primal_cache([event]), then
\* update_task_status(task_id, "complete", ...).
TaskComplete(w, s) ==
    /\ worker[w].slot[s].pc = "complete"
    /\ \E outcome \in CacheOutcomes :
          LET task == worker[w].slot[s].task
              media_uploads == MediaUploads(worker[w].slot[s].uploads)
              cache_imported == import_to_primal_cache(outcome)
          IN  IF cache_imported = "raised"
              THEN /\ worker' = [worker EXCEPT ![w].slot[s].pc = "except"]
                   /\ UNCHANGED db
              ELSE /\ db' = update_task_status(db, task, "complete",
                                               primary_blossom_url(media_uploads),
                                               blossom_urls_arg(media_uploads),
                                               EventIdOfPost(task), NULL, FALSE)
                   /\ worker' = [worker EXCEPT
                                   ![w].slot[s].cache_imported = cache_imported,
                                   ![w].slot[s].pc = "finally"]
    /\ UNCHANGED <<now, killed, claimVars>>

\* except: retry_count = get_task_retry_count(task_id)
TaskExcept(w, s) ==
    /\ worker[w].slot[s].pc = "except"
    /\ worker' = [worker EXCEPT
                    ![w].slot[s].retry_count =
                        get_task_retry_count(db, worker[w].slot[s].task),
                    ![w].slot[s].pc = "retry"]
    /\ UNCHANGED <<db, now, killed, claimVars>>

\* error_msg = str(e): the text of the exception, which may be empty and is
\* never None.
error_msg == <<"str(e)">>

\* f"Max retries exceeded: {error_msg}"
MaxRetriesExceeded(msg) == <<"Max retries exceeded: ">> \o msg

\* if retry_count < MAX_RETRIES
RetryAllowed_always(retry_count) == TRUE

RetryAllowed_once_more(retry_count) == retry_count <= MAX_RETRIES

RetryAllowed(retry_count) == retry_count < MAX_RETRIES

\* Back to 'pending' with retry_count + 1, or to 'error'.
TaskRetry(w, s) ==
    /\ worker[w].slot[s].pc = "retry"
    /\ db' = IF RetryAllowed(worker[w].slot[s].retry_count)
             THEN update_task_status(db, worker[w].slot[s].task, "pending",
                                     NULL, NULL, NULL, error_msg, TRUE)
             ELSE update_task_status(db, worker[w].slot[s].task, "error",
                                     NULL, NULL, NULL, MaxRetriesExceeded(error_msg), FALSE)
    /\ worker' = [worker EXCEPT ![w].slot[s].pc = "finally"]
    /\ UNCHANGED <<now, killed, claimVars>>

\* finally: update_job_status(job_id); the coroutine returns True.
TaskFinally(w, s) ==
    /\ worker[w].slot[s].pc = "finally"
    /\ LET task == worker[w].slot[s].task
       IN  db' = IF task \in Rows(db, "video_tasks")
                 THEN update_job_status(db, db.video_tasks[task].job_id, now)
                 ELSE db
    /\ SetSlot(w, s, [IdleSlot EXCEPT !.pc = "processed"])
    /\ UNCHANGED <<now, killed, claimVars>>

\* The gather has returned: the loop goes on at once when anything was
\* processed in this round, and to asyncio.sleep(POLL_INTERVAL) otherwise.
GatherReturned_unawaited(w) == TRUE

GatherReturned(w) ==
    \A s \in Slots : worker[w].slot[s].pc \in {"returned", "processed"}

TasksGathered(w) ==
    /\ worker[w].pc = "tasks"
    /\ GatherReturned(w)
    /\ LET tasks_processed == Cardinality({s \in Slots : worker[w].slot[s].pc = "processed"})
           processed_any == worker[w].processed_any \/ tasks_processed > 0
       IN  worker' = [worker EXCEPT ![w].slot = [s \in Slots |-> IdleSlot],
                                    ![w].processed_any = processed_any,
                                    ![w].pc = IF processed_any THEN "loop" ELSE "sleep"]
    /\ UNCHANGED <<db, now, killed, claimVars>>

\* await asyncio.sleep(POLL_INTERVAL) returns.
Sleep(w) ==
    /\ worker[w].pc = "sleep"
    /\ Goto(w, "loop")
    /\ UNCHANGED <<db, now, killed, claimVars>>

\* More than a cleanup interval passes on the clock while the workers sleep.
HourPasses ==
    /\ now < StartTime + MaxHours * CLEANUP_INTERVAL
    /\ \A w \in Workers : worker[w].pc = "sleep"
    /\ now' = now + CLEANUP_INTERVAL + POLL_INTERVAL
    /\ UNCHANGED <<db, worker, killed, claimVars>>

\* The process is killed, wherever it is, and started again.
Kill(w) ==
    /\ killed < MaxKills
    /\ killed' = killed + 1
    /\ worker' = [worker EXCEPT ![w] = StartedWorker]
    /\ UNCHANGED <<db, now, claimVars>>

\* The scheduler and the task coroutines.
SchedulerStep(w) ==
    \/ StartResetProposals(w)
    \/ StartResetGifts(w)
    \/ LoopTop(w)
    \/ CleanupPass(w)
    \/ ClaimProfile(w)
    \/ \E k \in Kinds : ClaimOffer(w, k)
    \/ \E s \in Slots :
          \/ TaskClaim(w, s)
          \/ TaskStart(w, s)
          \/ TaskUpload(w, s)
          \/ TaskPublish(w, s)
          \/ TaskComplete(w, s)
          \/ TaskExcept(w, s)
          \/ TaskRetry(w, s)
          \/ TaskFinally(w, s)
    \/ TasksGathered(w)
    \/ Sleep(w)

\* The processors of profiles, proposals and gifts.
ProcessorStep(w) ==
    \/ process_profile(w)
    \/ ProfilePublish(w)
    \/ ProfileCacheImport(w)
    \/ ProfileWrite(w)
    \/ OfferMark(w)
    \/ OfferGetPosts(w)
    \/ OfferPostStart(w)
    \/ OfferPostUpload(w)
    \/ OfferGetArticles(w)
    \/ OfferArticleStart(w)
    \/ OfferArticleUpload(w)
    \/ OfferFinal(w)

WorkerStep(w) == SchedulerStep(w) \/ ProcessorStep(w)

(***************************************************************************)
(* Spec: worker processes on one store.  The store starts with the rows of *)
(* one kind of work: a job with its posts, a job with a profile, proposals *)
(* or gifts with a post each and an article, or migrations left by the     *)
(* migration flow.                                                         *)
(***************************************************************************)
Scenarios == {"tasks", "profile", "proposals", "gifts", "migrations", "articles"}

MIGRATION_RETENTION_DAYS == 7

\* The first post of the job has one media item, the others are carousels.
MaxItems == 2

ItemsOfPost(r) == IF r = 1 THEN 1 ELSE MaxItems

ScenarioStore(sc) ==
    CASE sc = "tasks" ->
            [EmptyStore EXCEPT
               !.jobs = [j \in {1} |-> JobRow(StartTime, "NULL")],
               !.video_tasks = [r \in RowIds |->
                   [TaskRow(1, StartTime + r) EXCEPT !.media_items = ItemsOfPost(r)]]]
      [] sc = "profile" ->
            [EmptyStore EXCEPT !.jobs = [j \in {1} |-> JobRow(StartTime, "name")]]
      [] sc \in {"proposals", "gifts"} ->
            LET k == KindOf(sc)
            IN  [EmptyStore EXCEPT
                   ![k.name] = [r \in RowIds |-> OfferRow(StartTime + r, FarFuture)],
                   ![k.posts] = [r \in RowIds |-> ChildRow(k.key, r, "pending")],
                   ![k.articles] = [r \in {1} |-> ArticleRow(k.key, r)]]
      [] sc = "articles" ->
            [EmptyStore EXCEPT
               !.proposals = [r \in {1} |-> OfferRow(StartTime + r, FarFuture)],
               !.proposal_articles = [r \in {1} |->
                   [ArticleRow("proposal_id", r) EXCEPT
                       !.content_markdown = MarkdownWithImages(NumImages)]]]
      [] sc = "migrations" ->
            [EmptyStore EXCEPT
               !.migrations = [r \in {1, 2} |->
                   IF r = 1
                   THEN [ParentRow(StartTime - MIGRATION_STALE_MINUTES * 60 - 1)
                            EXCEPT !.status = "processing"]
                   ELSE [ParentRow(StartTime - MIGRATION_RETENTION_DAYS * 86400 - 1)
                            EXCEPT !.status = "complete"]],
               !.migration_posts = [r \in {1} |-> ChildRow("migration_id", 1, "uploading")]]

Init ==
    /\ \E sc \in Scenarios : db = ScenarioStore(sc)
    /\ now = StartTime
    /\ worker = [w \in Workers |-> StartedWorker]
    /\ killed = 0
    /\ call = [c \in Callers |-> IdleCall]
    /\ returned = [n \in ClaimNames |-> [r \in RowIds |-> 0]]
    /\ lastOp = NoOp
    /\ io = NoCall

Next ==
    \/ \E w \in Workers : WorkerStep(w)
    \/ HourPasses

Spec == Init /\ [][Next]_vars

(***************************************************************************)
(* FairSpec: the workers under a fair scheduler, with worker processes     *)
(* killed and started again.  The store holds a job with its posts, or the *)
(* migrations; the processors of the other kinds have nothing to run on.   *)
(* Every worker that can take a step eventually takes one, and the clock   *)
(* goes on.                                                                *)
(***************************************************************************)
InitFair ==
    /\ \E sc \in {"tasks", "migrations"} : db = ScenarioStore(sc)
    /\ now = StartTime
    /\ worker = [w \in Workers |-> StartedWorker]
    /\ killed = 0
    /\ call = [c \in Callers |-> IdleCall]
    /\ returned = [n \in ClaimNames |-> [r \in RowIds |-> 0]]
    /\ lastOp = NoOp
    /\ io = NoCall

NextFair ==
    \/ \E w \in Workers : SchedulerStep(w)
    \/ \E w \in Workers : Kill(w)
    \/ HourPasses

FairSpec ==
    /\ InitFair
    /\ [][NextFair]_vars
    /\ \A w \in Workers : WF_vars(SchedulerStep(w))
    /\ WF_vars(HourPasses)

(***************************************************************************)
(* C1.  For every claim function and every interleaving of the SELECTs and *)
(* conditional UPDATEs of the callers: a row is returned at most once (so  *)
(* never to two callers); a caller whose UPDATE found rowcount = 0 lost    *)
(* the row to exactly one winner, who moved it to the claimed state; and   *)
(* the loser selects again and never gets the lost row as candidate, so it *)
(* returns another row or None.                                            *)
(***************************************************************************)
C1_ExactlyOneWins ==
    \A c \in Callers :
        LET f == ClaimFn(call[c].fn)
        IN  /\ \A r \in RowIds : returned[f.name][r] <= 1
            /\ \A r \in RowIds :
                  returned[f.name][r] = 1 => db[f.table][r][f.col] = f.to
            /\ \A r \in call[c].lost :
                  /\ returned[f.name][r] = 1
                  /\ db[f.table][r][f.col] = f.to
            /\ (call[c].pc = "update" => call[c].cand \notin call[c].lost)

\* Two callers selected the same row; one won it, the other lost the race,
\* selected again and has returned.
C1_RaceWitness ==
    \E c \in Callers : \E r \in call[c].lost :
        /\ call[c].pc = "idle"
        /\ returned[call[c].fn][r] = 1


(***************************************************************************)
(* Vocabulary of the stale-recovery claims.                                *)
(***************************************************************************)
ResetOps == {"reset_stale_processing_profiles", "reset_stale_processing_proposals",
             "reset_stale_processing_gifts", "reset_stale_processing_migrations"}

FamilyOfReset(op) == CASE op = "reset_stale_processing_profiles" -> "jobs"
                       [] op = "reset_stale_processing_proposals" -> "proposals"
                       [] op = "reset_stale_processing_gifts" -> "gifts"
                       [] op = "reset_stale_processing_migrations" -> "migrations"

\* The threshold the repaired gift recovery uses; the deployed proposal and
\* gift recoveries take none.
GIFT_STALE_MINUTES == 30

ThresholdOf(op) == CASE op = "reset_stale_processing_profiles" -> PROFILE_STALE_MINUTES
                     [] op = "reset_stale_processing_migrations" -> MIGRATION_STALE_MINUTES
                     [] OTHER -> GIFT_STALE_MINUTES

InProcessing(d, fam, r) == IF fam = "jobs" THEN d.jobs[r].profile_published = -1
                                           ELSE d[fam][r].status = "processing"

ChildTables(fam) == CASE fam = "jobs" -> {}
                      [] fam = "migrations" -> {"migration_posts", "migration_articles"}
                      [] OTHER -> {PostsOf(fam)}

ChildrenOf(d, fam, r) ==
    {x \in ChildTables(fam) \X RowIds :
        /\ x[2] \in Rows(d, x[1])
        /\ d[x[1]][x[2]][KeyOf(fam)] = r}

ChildrenUnchanged(fam, r) ==
    \A x \in ChildrenOf(db, fam, r) : db'[x[1]][x[2]] = db[x[1]][x[2]]

(***************************************************************************)
(* C4.  Stale recovery never resets a young row: in every step of a        *)
(* stale-recovery operation, a row in its processing state whose           *)
(* updated_at is not older than the kind's threshold (measured when the    *)
(* operation ends) keeps its processing state, and its child rows are      *)
(* left as they were.                                                      *)
(***************************************************************************)
C4_YoungRowsKept ==
    [][lastOp'.name \in ResetOps =>
          LET fam == FamilyOfReset(lastOp'.name)
              th  == ThresholdOf(lastOp'.name)
          IN  \A r \in Rows(db, fam) :
                 (InProcessing(db, fam, r) /\ db[fam][r].updated_at >= Cutoff(now', th))
                    => (InProcessing(db', fam, r) /\ ChildrenUnchanged(fam, r))]_vars

(***************************************************************************)
(* C5.  Every claim that moves a profile, proposal, gift or migration into *)
(* its processing state sets the row's updated_at to the claim time in the *)
(* same update.                                                            *)
(***************************************************************************)
C5_ClaimSetsUpdatedAt ==
    [][(lastOp'.name \in ClaimNames \ {"claim_next_pending_task"} /\ lastOp'.rowcount = 1) =>
          LET f == ClaimFn(lastOp'.name)
          IN  /\ InProcessing(db', f.table, lastOp'.arg)
              /\ db'[f.table][lastOp'.arg].updated_at = lastOp'.at]_vars

(***************************************************************************)
(* C6.  Stale recovery resets children together with the parent: after a   *)
(* proposal, gift or migration recovery has moved a parent from            *)
(* 'processing' to 'pending', none of its posts or articles is still       *)
(* 'uploading'; children of parents the recovery left alone are unchanged. *)
(***************************************************************************)
C6_ChildrenResetWithParent ==
    [][lastOp'.name \in ResetOps \ {"reset_stale_processing_profiles"} =>
          LET fam == FamilyOfReset(lastOp'.name)
          IN  \A r \in Rows(db, fam) :
                 /\ (db[fam][r].status = "processing" /\ db'[fam][r].status = "pending")
                       => \A x \in ChildrenOf(db', fam, r) :
                             db'[x[1]][x[2]].status # "uploading"
                 /\ db'[fam][r].status = db[fam][r].status
                       => ChildrenUnchanged(fam, r)]_vars


(***************************************************************************)
(* Vocabulary of the worker claims.                                        *)
(***************************************************************************)
\* Worker w is between its claim of row r of a kind and its final status write.
Holds(w, kind, r) == worker[w].held.kind = kind /\ worker[w].held.item = r

\* A coroutine of some worker is running process_task on post t.
InHand(t) ==
    \E w \in Workers, s \in Slots :
       /\ worker[w].slot[s].task = t
       /\ worker[w].slot[s].pc \in {"start", "upload", "publish", "complete",
                                     "except", "retry"}

Tasks == Rows(db, "video_tasks")

(***************************************************************************)
(* C2.  Row-level mutual exclusion over the whole processing interval: no  *)
(* two workers are at the same time between their claim of the same        *)
(* proposal or gift and their final status write.                          *)
(***************************************************************************)
C2_MutualExclusion ==
    \A w1 \in Workers :
       \A w2 \in Workers \ {w1} :
       \A kind \in {"proposals", "gifts"}, r \in RowIds :
          ~(Holds(w1, kind, r) /\ Holds(w2, kind, r))

(***************************************************************************)
(* C3.  Crash recovery of posts: a post left in 'uploading' or             *)
(* 'publishing' by a killed worker, with no coroutine working on it, is    *)
(* eventually driven to 'complete' or 'error'.                             *)
(***************************************************************************)
C3_OrphanedPostRecovered ==
    \A t \in RowIds :
       (/\ t \in Tasks
        /\ db.video_tasks[t].status \in {"uploading", "publishing"}
        /\ ~InHand(t))
          ~> (t \in Tasks /\ db.video_tasks[t].status \in {"complete", "error"})

(***************************************************************************)
(* C7.  The cleanup pass covers migrations: a migration that has been      *)
(* 'processing' longer than its timeout is eventually reset to 'pending',  *)
(* and a 'complete' migration older than the retention window is           *)
(* eventually deleted.                                                     *)
(***************************************************************************)
C7_CleanupCoversMigrations ==
    \A m \in RowIds :
       /\ (m \in Rows(db, "migrations") /\ m \in StaleMigrations(db, now, MIGRATION_STALE_MINUTES))
             ~> ~(m \in Rows(db, "migrations") /\ db.migrations[m].status = "processing")
       /\ (/\ m \in Rows(db, "migrations")
           /\ db.migrations[m].status = "complete"
           /\ db.migrations[m].updated_at < now - MIGRATION_RETENTION_DAYS * 86400)
             ~> (m \notin Rows(db, "migrations"))

(***************************************************************************)
(* C8.  A post's retry_count stays between 0 and MAX_RETRIES: every step   *)
(* that changes it adds 1 to a value below MAX_RETRIES, and the failure    *)
(* write of process_task at retry_count = MAX_RETRIES sets 'error' and     *)
(* leaves the count alone.                                                 *)
(***************************************************************************)
C8_RetryCountBounded ==
    [][\A t \in Tasks :
          /\ db.video_tasks[t].retry_count \in 0..MAX_RETRIES
          /\ db'.video_tasks[t].retry_count \in 0..MAX_RETRIES
          /\ db'.video_tasks[t].retry_count # db.video_tasks[t].retry_count
                => /\ db.video_tasks[t].retry_count < MAX_RETRIES
                   /\ db'.video_tasks[t].retry_count = db.video_tasks[t].retry_count + 1
          /\ \A w \in Workers, s \in Slots :
                (/\ worker[w].slot[s].task = t
                 /\ worker[w].slot[s].pc = "retry"
                 /\ worker'[w].slot[s].pc = "finally"
                 /\ db.video_tasks[t].retry_count = MAX_RETRIES)
                   => /\ db'.video_tasks[t].status = "error"
                      /\ db'.video_tasks[t].retry_count = MAX_RETRIES]_vars

C8_RetriesExhausted ==
    \E t \in Tasks :
       /\ db.video_tasks[t].status = "error"
       /\ db.video_tasks[t].retry_count = MAX_RETRIES

(***************************************************************************)
(* C9.  No relay accepting is a transient failure: process_task goes to    *)
(* its failure path without writing, and its failure write leaves the post *)
(* not complete, and while retry_count is below MAX_RETRIES sets 'pending' *)
(* and adds exactly 1; when a relay accepts, the attempt goes on to write  *)
(* 'complete'.                                                             *)
(***************************************************************************)
C9_NoRelayIsTransient ==
    [][\A w \in Workers, s \in Slots :
          LET sl  == worker[w].slot[s]
              sl2 == worker'[w].slot[s]
              t   == sl.task
          IN  /\ (sl.pc = "publish" /\ sl2.pc # "publish")
                    => /\ sl2.successful_relays = {} => (sl2.pc = "except" /\ db' = db)
                       /\ sl2.successful_relays # {} => sl2.pc = "complete"
              /\ (sl.pc = "complete" /\ sl2.pc = "finally")
                    => db'.video_tasks[t].status = "complete"
              /\ (/\ sl.pc = "retry"
                  /\ sl2.pc = "finally"
                  /\ sl.uploaded
                  /\ sl.successful_relays = {})
                    => /\ db'.video_tasks[t].status # "complete"
                       /\ db.video_tasks[t].retry_count < MAX_RETRIES
                             => /\ db'.video_tasks[t].status = "pending"
                                /\ db'.video_tasks[t].retry_count
                                      = db.video_tasks[t].retry_count + 1]_vars

C9_RetriedAfterNoRelay ==
    \E w \in Workers, s \in Slots :
       LET sl == worker[w].slot[s]
       IN  /\ sl.pc = "finally"
           /\ sl.uploaded
           /\ sl.successful_relays = {}
           /\ db.video_tasks[sl.task].status = "pending"
           /\ db.video_tasks[sl.task].retry_count >= 1

(***************************************************************************)
(* C10.  A post becomes 'complete' only by the write of an attempt whose   *)
(* uploads all succeeded and whose event at least one relay accepted.      *)
(***************************************************************************)
C10_CompleteNeedsUploadAndRelay ==
    [][\A t \in Tasks :
          (db.video_tasks[t].status # "complete" /\ db'.video_tasks[t].status = "complete")
             => \E w \in Workers, s \in Slots :
                   /\ worker[w].slot[s].task = t
                   /\ worker[w].slot[s].pc = "complete"
                   /\ worker'[w].slot[s].pc = "finally"
                   /\ worker[w].slot[s].uploaded
                   /\ worker[w].slot[s].successful_relays # {}]_vars

C10_PostComplete ==
    \E t \in Tasks : db.video_tasks[t].status = "complete"


(***************************************************************************)
(* Cross-checks of the stale-recovery vocabulary: what the recoveries with *)
(* a threshold, and those without, do keep.                                *)
(***************************************************************************)
ThresholdRecoveriesKeepYoungRows ==
    [][lastOp'.name \in {"reset_stale_processing_profiles",
                         "reset_stale_processing_migrations"} =>
          LET fam == FamilyOfReset(lastOp'.name)
              th  == ThresholdOf(lastOp'.name)
          IN  \A r \in Rows(db, fam) :
                 (InProcessing(db, fam, r) /\ db[fam][r].updated_at >= Cutoff(now', th))
                    => (InProcessing(db', fam, r) /\ ChildrenUnchanged(fam, r))]_vars

OfferRecoveriesResetChildren ==
    [][lastOp'.name \in {"reset_stale_processing_proposals",
                         "reset_stale_processing_gifts"} =>
          LET fam == FamilyOfReset(lastOp'.name)
          IN  \A r \in Rows(db, fam) :
                 /\ (db[fam][r].status = "processing" /\ db'[fam][r].status = "pending")
                       => \A x \in ChildrenOf(db', fam, r) :
                             db'[x[1]][x[2]].status # "uploading"
                 /\ db'[fam][r].status = db[fam][r].status
                       => ChildrenUnchanged(fam, r)]_vars

(***************************************************************************)
(* Posts with several media items.                                         *)
(***************************************************************************)
\* The upload of some item of the slot's task has failed in this attempt.
ItemFailed(sl) == sl.task # NoRow /\ sl.uploads # MediaItems(db, sl.task)

\* C11: when the upload of any single media item of a post fails, the whole
\* attempt fails, however many of the other items uploaded: the post is not
\* written 'publishing', no event is built or published, the post does not
\* become 'complete', and the attempt ends with the post back in 'pending'
\* or in 'error'.
C11_OneFailedItemFailsPost ==
    [][\A w \in Workers : \A s \in Slots :
          LET sl  == worker[w].slot[s]
              sl2 == worker'[w].slot[s]
          IN  /\ (sl.pc = "upload" /\ sl2.pc # "upload" /\ sl2.uploads # MediaItems(db, sl.task))
                    => (sl2.pc = "except" /\ db' = db)
              /\ (sl.pc \in {"except", "retry"} /\ ItemFailed(sl))
                    => /\ db.video_tasks[sl.task].status \notin {"publishing", "complete"}
                       /\ sl2.pc \in {"except", "retry", "finally"}
              /\ (sl.pc = "retry" /\ ItemFailed(sl) /\ sl2.pc = "finally")
                    => /\ db'.video_tasks[sl.task].status \in {"pending", "error"}
                       /\ db'.video_tasks[sl.task].blossom_url = NULL
                       /\ db'.video_tasks[sl.task].blossom_urls = NULL]_vars

\* A carousel of which one item uploaded and another did not, back in 'pending'.
C11_PartialUploadFailed ==
    \E w \in Workers : \E s \in Slots :
        LET sl == worker[w].slot[s]
        IN  /\ sl.pc = "finally"
            /\ sl.uploads # {}
            /\ ItemFailed(sl)
            /\ db.video_tasks[sl.task].status = "pending"

(***************************************************************************)
(* SpecUpload: one call of process_task from its gather of the uploads to  *)
(* the event, item by item.  The uploads of the items are coroutines on    *)
(* one event loop and complete in any order; what a URL serves may differ  *)
(* from one fetch to the next.                                             *)
(***************************************************************************)
MaxCarousel == 3    \* media items of the post
NumVersions == 2    \* different byte strings one media URL may serve

MediaTypes == {"image", "video"}
Versions == 1..NumVersions

\* response.content of a GET of the URL of item i: one of its versions.
Content(i, v) == [item |-> i, version |-> v]

\* hashlib.sha256(content).hexdigest(): no two byte strings share a digest.
sha256(content) == <<"sha256", content.item, content.version>>

\* len(content): the versions of an item differ in length.
len(content) == 1000 * content.item + content.version

\* The URL under which the Blossom server serves a blob: the server's
\* address and the digest of the bytes it stored.
BlossomUrl(stored) == <<"BLOSSOM_SERVER", sha256(stored)>>

\* stream_upload of the backend: fetches video_url again (content2),
\* computes its own digest, and PUTs these bytes with the caller's
\* Authorization header and its own X-SHA-256.
stream_upload(content2, auth_header) ==
    [stored |-> content2,
     authorization |-> auth_header,
     x_sha_256 |-> sha256(content2),
     blossom_url |-> BlossomUrl(content2),
     sha256 |-> sha256(content2),
     size |-> len(content2),
     mime_type |-> "video/mp4"]

\* upload_media_to_blossom: content is what the worker's own GET returned,
\* content2 what the backend's GET returned (videos only).  The record is
\* the returned dict together with what went to the Blossom server.
upload_media_to_blossom(media_type, content, content2) ==
    LET file_hash   == sha256(content)
        file_size   == len(content)
        auth_header == [t |-> "upload", x |-> file_hash]
        upload_data == stream_upload(content2, auth_header)
    IN  IF media_type = "video"
        THEN [url |-> upload_data.blossom_url, hash |-> file_hash, size |-> file_size,
              mime_type |-> upload_data.mime_type,
              stored |-> upload_data.stored,
              authorization |-> upload_data.authorization,
              x_sha_256 |-> upload_data.x_sha_256]
        ELSE [url |-> BlossomUrl(content), hash |-> file_hash, size |-> file_size,
              mime_type |-> "image/jpeg",
              stored |-> content,
              authorization |-> auth_header,
              x_sha_256 |-> file_hash]

\* What asyncio.gather returns: the results in the order of the awaitables
\* it was given, whatever the order they completed in.
gather_as_completed(result, done) == [k \in DOMAIN done |-> result[done[k]]]

gather(result, done) == [i \in DOMAIN done |-> result[i]]

\* create_post_event: one imeta tag per element of media_uploads, and the
\* URLs below the caption, both in the order of the list.
create_post_event(media_uploads) ==
    [tags |-> [i \in DOMAIN media_uploads |->
                  <<"imeta", <<"url", media_uploads[i].url>>,
                             <<"x", media_uploads[i].hash>>,
                             <<"m", media_uploads[i].mime_type>>,
                             <<"size", media_uploads[i].size>> >>],
     content |-> <<"caption">> \o [i \in DOMAIN media_uploads |-> media_uploads[i].url]]

NoResult == [url |-> "NULL"]

\* The call at its gather: media_items parsed, no upload completed yet.
UploadCall(media_items) ==
    [pc |-> "gather", media_items |-> media_items,
     done |-> <<>>, result |-> [i \in DOMAIN media_items |-> NoResult],
     media_uploads |-> <<>>, blossom_url |-> NULL, blossom_urls |-> NULL,
     event |-> "NULL"]

storeVars == <<db, now, call, returned, lastOp, worker, killed>>
storeRest == <<now, call, returned, lastOp, worker, killed>>

\* The upload of item i completes: with the dict, or by raising when the
\* server or the backend refused it, which makes the gather raise.
UploadItem(i) ==
    /\ io.pc = "gather"
    /\ i \in DOMAIN io.media_items \ Range(io.done)
    /\ \E v \in Versions, v2 \in Versions, accepted \in BOOLEAN :
          IF accepted
          THEN io' = [io EXCEPT
                        !.done = Append(@, i),
                        !.result[i] = upload_media_to_blossom(
                                          io.media_items[i], Content(i, v), Content(i, v2))]
          ELSE io' = [io EXCEPT !.pc = "raised"]
    /\ UNCHANGED storeVars

\* The gather returns; update_task_status(task_id, "publishing", ...).
UploadsGathered ==
    /\ io.pc = "gather"
    /\ Range(io.done) = DOMAIN io.media_items
    /\ LET media_uploads == gather(io.result, io.done)
       IN  io' = [io EXCEPT !.pc = "publishing",
                            !.media_uploads = media_uploads,
                            !.blossom_url = primary_blossom_url(media_uploads),
                            !.blossom_urls = blossom_urls_arg(media_uploads)]
    /\ UNCHANGED storeVars

\* event = create_post_event(..., media_uploads=media_uploads, ...)
UploadCreateEvent ==
    /\ io.pc = "publishing"
    /\ io' = [io EXCEPT !.pc = "event", !.event = create_post_event(io.media_uploads)]
    /\ UNCHANGED storeVars

InitUpload ==
    /\ \E n \in 1..MaxCarousel : \E media_items \in [1..n -> MediaTypes] :
          io = UploadCall(media_items)
    /\ db = EmptyStore
    /\ now = StartTime
    /\ worker = <<>>
    /\ killed = 0
    /\ call = [c \in Callers |-> IdleCall]
    /\ returned = [n \in ClaimNames |-> [r \in RowIds |-> 0]]
    /\ lastOp = NoOp

NextUpload ==
    \/ \E i \in 1..MaxCarousel : UploadItem(i)
    \/ UploadsGathered
    \/ UploadCreateEvent

SpecUpload == InitUpload /\ [][NextUpload]_vars

\* The media item whose bytes a Blossom URL serves.
ItemOfUrl(url) == url[2][2]

\* C12: in the event of a carousel and in the stored URLs, position i belongs
\* to media item i, in whatever order the uploads of the items completed:
\* the i-th imeta tag, the i-th URL of the content and the i-th stored
\* blossom URL are those of the i-th media item.
C12_OrderOfItemsKept ==
    /\ io.pc \in {"publishing", "event"} =>
          /\ Len(io.media_uploads) = Len(io.media_items)
          /\ \A i \in DOMAIN io.media_items :
                /\ ItemOfUrl(io.media_uploads[i].url) = i
                /\ Len(io.media_items) > 1 => ItemOfUrl(io.blossom_urls[i]) = i
          /\ ItemOfUrl(io.blossom_url) = 1
    /\ io.pc = "event" =>
          /\ Len(io.event.tags) = Len(io.media_items)
          /\ \A i \in DOMAIN io.media_items :
                /\ io.event.tags[i][2] = <<"url", io.media_uploads[i].url>>
                /\ ItemOfUrl(io.event.tags[i][2][2]) = i
                /\ ItemOfUrl(io.event.content[i + 1]) = i

\* An event of a carousel whose items completed in another order than given.
C12_CompletedOutOfOrder ==
    /\ io.pc = "event"
    /\ Len(io.media_items) > 1
    /\ \E k \in DOMAIN io.done : io.done[k] # k

\* len(blossom_urls) of a stored post: the length of the list in the
\* column, nothing when the column is NULL.
StoredUrlCount(row) == IF row.blossom_urls = NULL THEN 0 ELSE Len(row.blossom_urls)

\* C13: for every post that is 'complete' or 'error', blossom_urls has as
\* many URLs as the post has media items exactly when the post is
\* 'complete', for posts with one media item as for carousels.
C13_UrlsMatchItemsIffComplete ==
    \A t \in Rows(db, "video_tasks") :
        LET row == db.video_tasks[t]
        IN  row.status \in {"complete", "error"} =>
                (StoredUrlCount(row) = row.media_items <=> row.status = "complete")

\* Cross-check: counting the URL in blossom_url when blossom_urls is NULL,
\* the count matches the media items exactly for the complete posts.
UrlsWithPrimaryMatchItemsIffComplete ==
    \A t \in Rows(db, "video_tasks") :
        LET row   == db.video_tasks[t]
            count == IF row.blossom_urls # NULL THEN Len(row.blossom_urls)
                     ELSE IF row.blossom_url # NULL THEN 1 ELSE 0
        IN  row.status \in {"complete", "error"} =>
                (count = row.media_items <=> row.status = "complete")

(***************************************************************************)
(* Jobs and their posts.                                                   *)
(***************************************************************************)
PostsOfJob(d, j) == {t \in Rows(d, "video_tasks") : d.video_tasks[t].job_id = j}

AllPostsTerminal(d, j) ==
    /\ PostsOfJob(d, j) # {}
    /\ \A t \in PostsOfJob(d, j) : d.video_tasks[t].status \in {"complete", "error"}

\* The step is the update_job_status(job_id) in the finally of process_task.
JobStatusUpdated(w, s) ==
    /\ worker[w].slot[s].pc = "finally"
    /\ worker'[w].slot[s].pc = "processed"

\* C14: when update_job_status runs and every post of the job is terminal,
\* the job becomes 'complete', also when every post ended in 'error'; the
\* posts keep their own status.
C14_JobCompleteWhenAllPostsTerminal ==
    [][\A w \in Workers : \A s \in Slots :
          LET j == db.video_tasks[worker[w].slot[s].task].job_id
          IN  (JobStatusUpdated(w, s) /\ AllPostsTerminal(db, j))
                 => /\ db'.jobs[j].status = "complete"
                    /\ db'.video_tasks = db.video_tasks]_vars

Terminal == {"complete", "error"}

\* C15: a job that is 'complete' or 'error' has its secret_key_hex replaced
\* by 'DELETED'; the key changes only in the update that makes the status
\* terminal; a job that still has a post in 'pending', 'uploading' or
\* 'publishing' keeps its key.
C15_KeyScrubbedWhenTerminal ==
    [][\A j \in Rows(db, "jobs") :
          LET job  == db.jobs[j]
              job2 == db'.jobs[j]
          IN  /\ job2.status \in Terminal => job2.secret_key_hex = "DELETED"
              /\ job2.secret_key_hex # job.secret_key_hex
                    => (job2.status \in Terminal /\ job.status \notin Terminal)
              /\ (\E t \in PostsOfJob(db', j) :
                      db'.video_tasks[t].status \in {"pending", "uploading", "publishing"})
                    => job2.secret_key_hex = "KEY"]_vars

\* A job made 'complete' with a post in 'error', its key scrubbed.
C15_JobScrubbed ==
    \E j \in Rows(db, "jobs") :
        /\ db.jobs[j].status = "complete"
        /\ db.jobs[j].secret_key_hex = "DELETED"
        /\ \E t \in PostsOfJob(db, j) : db.video_tasks[t].status = "error"

(***************************************************************************)
(* Articles and their images.                                              *)
(***************************************************************************)
\* Worker w has just been through the uploads of an article: the step from
\* "article_upload" on.
ArticleAttempted(w) ==
    /\ worker[w].pc = "article_upload"
    /\ worker'[w].pc = "article"

\* The image uploaded in the attempt worker w has just made.
UploadedIn(w, url) == \E e \in Range(worker'[w].held.url_mapping) : e[1] = url

\* C16: when an image upload of an article fails and upload_attempts, after
\* the increment of this attempt, is below 5, the article is not marked
\* 'ready' and its parent goes back to 'pending'; when upload_attempts has
\* reached 5, the article is marked 'ready' and its stored Markdown has the
\* blob URL for every image that uploaded and the original URL for every
\* image that failed.
C16_ArticleAttempts ==
    [][\A w \in Workers :
          LET h   == worker[w].held
              h2  == worker'[w].held
              k   == KindOf(h.kind)
              old == h.rows[h.article].content_markdown
          IN  /\ (ArticleAttempted(w) /\ h2.upload_failed /\ h.attempts < MAX_UPLOAD_ATTEMPTS)
                    => /\ db'[k.articles][h.article].status = db[k.articles][h.article].status
                       /\ ~h2.all_succeeded
              /\ (worker[w].pc = "final" /\ worker'[w].pc # "final" /\ ~h.all_succeeded)
                    => db'[k.name][h.item].status = "pending"
              /\ (ArticleAttempted(w) /\ h2.upload_failed /\ h.attempts >= MAX_UPLOAD_ATTEMPTS)
                    => /\ db'[k.articles][h.article].status = "ready"
                       /\ Len(db'[k.articles][h.article].content_markdown) = Len(old)
                       /\ \A n \in DOMAIN old :
                             db'[k.articles][h.article].content_markdown[n] =
                                 IF UploadedIn(w, old[n]) THEN BlobOf(old[n]) ELSE old[n]]_vars

\* An article made 'ready' at its fifth attempt with one image on the blob
\* store and another still at its original URL.
C16_ReadyWithFallback ==
    \E a \in Rows(db, "proposal_articles") :
        LET row == db.proposal_articles[a]
        IN  /\ row.status = "ready"
            /\ row.upload_attempts = MAX_UPLOAD_ATTEMPTS
            /\ \E n \in DOMAIN row.content_markdown : IsBlossom(row.content_markdown[n])
            /\ \E n \in DOMAIN row.content_markdown : ~IsBlossom(row.content_markdown[n])

\* C17: after a failed attempt on an article below the attempt limit, the
\* stored article has the upload_attempts of this attempt, status
\* 'pending', and a URL map with one entry per image that did upload.
C17_FailedAttemptRecordsUploads ==
    [][\A w \in Workers :
          LET h   == worker[w].held
              h2  == worker'[w].held
              k   == KindOf(h.kind)
          IN  (ArticleAttempted(w) /\ h2.upload_failed /\ h.attempts < MAX_UPLOAD_ATTEMPTS)
                 => /\ db'[k.articles][h.article].upload_attempts = h.attempts
                    /\ db'[k.articles][h.article].status = "pending"
                    /\ db'[k.articles][h.article].inline_image_urls = h2.url_mapping]_vars

\* C18: in process_proposal and process_gift a post whose upload fails is
\* marked 'error' and its siblings are processed all the same; so whenever
\* the parent is marked 'ready', each of its posts is 'ready' or 'error'
\* and none is left 'uploading'.
C18_ReadyParentHasNoUploadingPost ==
    [][\A w \in Workers :
          LET h == worker[w].held
              k == KindOf(h.kind)
          IN  (/\ worker[w].pc = "final"
               /\ worker'[w].pc # "final"
               /\ db'[k.name][h.item].status = "ready")
                 => \A q \in GetChildren(db', k.posts, k.key, h.item) :
                       db'[k.posts][q].status \in {"ready", "error"}]_vars

(***************************************************************************)
(* The digests of an upload.                                               *)
(***************************************************************************)
\* The x tag of the authorization, the X-SHA-256 header and the hash and
\* size of the returned dict all describe the bytes the server stored.
Consistent(r) ==
    /\ r.authorization.x = sha256(r.stored)
    /\ r.x_sha_256 = sha256(r.stored)
    /\ r.hash = sha256(r.stored)
    /\ r.size = len(r.stored)

\* C19: for every completed upload, the x tag of the upload authorization,
\* the X-SHA-256 header and the hash and size reported in the event all
\* describe the bytes the blob store stored, on the streaming video path
\* too, where worker and backend fetch the source separately and may get
\* different bytes.
C19_DigestsDescribeStoredBytes ==
    \A i \in Range(io.done) : Consistent(io.result[i])

\* Cross-check: the direct upload of an image is consistent.
ImageDigestsDescribeStoredBytes ==
    \A i \in Range(io.done) :
        io.media_items[i] = "image" => Consistent(io.result[i])

(***************************************************************************)
(* SpecRelay: one call of publish_to_relays.  The publish_to_relay         *)
(* coroutines of the relays complete in any order, each with what its      *)
(* relay did.                                                              *)
(***************************************************************************)
EventId == "id"

\* The JSON values a relay may put in the third place of its frame.
JsonValues == {"true", "false", "1"}

\* What a relay does: the connection or the send raises, no frame arrives
\* within the timeout, the first frame is no JSON array, or it is the array
\* data.
Frames == {<<tag, id, accepted>> : tag \in {"OK", "NOTICE"},
                                   id \in {EventId, "other"},
                                   accepted \in JsonValues}

Responses ==
    {[kind |-> k, data |-> <<>>] : k \in {"raise", "timeout", "malformed"}}
        \cup {[kind |-> "frame", data |-> f] : f \in Frames}

\* json.loads of the third element: true, false, or the number.
json_loads(text) ==
    CASE text = "true" -> "True"
      [] text = "false" -> "False"
      [] OTHER -> text

\* if data[0] == "OK" and data[1] == event["id"]
Acknowledges_any_id(data, event_id) == data[1] = "OK"

Acknowledges(data, event_id) == data[1] = "OK" /\ data[2] = event_id

\* publish_to_relay: data[2] of an acknowledging first frame; False after
\* a timeout, another frame, or any exception.
publish_to_relay(event_id, response) ==
    IF response.kind = "frame" /\ Acknowledges(response.data, event_id)
    THEN json_loads(response.data[3])
    ELSE "False"

\* publish_to_relays: the relays whose result is True.
publish_to_relays(results) == {relay \in DOMAIN results : results[relay] = "True"}

NoResponse == [kind |-> "none", data |-> <<>>]

PublishCall ==
    [pc |-> "gather",
     response |-> [relay \in NOSTR_RELAYS |-> NoResponse],
     results |-> [relay \in NOSTR_RELAYS |-> "pending"],
     successful_relays |-> {}]

\* The publish_to_relay coroutine of one relay returns.
RelayDone(relay) ==
    /\ io.pc = "gather"
    /\ io.results[relay] = "pending"
    /\ \E response \in Responses :
          io' = [io EXCEPT !.response[relay] = response,
                           !.results[relay] = publish_to_relay(EventId, response)]
    /\ UNCHANGED storeVars

\* The gather returns; successful_relays is built from the results.
RelaysGathered ==
    /\ io.pc = "gather"
    /\ \A relay \in NOSTR_RELAYS : io.results[relay] # "pending"
    /\ io' = [io EXCEPT !.pc = "returned",
                         !.successful_relays = publish_to_relays(io.results)]
    /\ UNCHANGED storeVars

InitRelay ==
    /\ io = PublishCall
    /\ db = EmptyStore
    /\ now = StartTime
    /\ worker = <<>>
    /\ killed = 0
    /\ call = [c \in Callers |-> IdleCall]
    /\ returned = [n \in ClaimNames |-> [r \in RowIds |-> 0]]
    /\ lastOp = NoOp

NextRelay ==
    \/ \E relay \in NOSTR_RELAYS : RelayDone(relay)
    \/ RelaysGathered

SpecRelay == InitRelay /\ [][NextRelay]_vars

\* The first frame of the relay was ["OK", id, true] with the event's id.
Accepted(response) ==
    /\ response.kind = "frame"
    /\ response.data = <<"OK", EventId, "true">>

\* C20: publish_to_relays returns exactly the configured relays whose first
\* frame within the timeout was ["OK", id, true] with the id of the event:
\* a relay that raised, timed out, answered with another frame, another id
\* or accepted = false is not in the set, and whether a relay is in the set
\* depends on what that relay did alone.
C20_AcceptedRelaysExactly ==
    io.pc = "returned" =>
        io.successful_relays = {relay \in NOSTR_RELAYS : Accepted(io.response[relay])}

\* A call that returned some relay while another raised and a third
\* acknowledged another id.
C20_SomeAcceptedSomeNot ==
    /\ io.pc = "returned"
    /\ io.successful_relays # {}
    /\ \E relay \in NOSTR_RELAYS : io.response[relay].kind = "raise"
    /\ \E relay \in NOSTR_RELAYS :
          io.response[relay] = [kind |-> "frame", data |-> <<"OK", "other", "true">>]

(***************************************************************************)
(* The import to the cache.                                                *)
(***************************************************************************)
\* C21: the import to the cache is never fatal.  For a post whose event a
\* relay accepted, whatever import_to_primal_cache met (a response, a
\* timeout, an exception), the attempt goes on and writes the post
\* 'complete' with its event id, the same row in every case; and for a
\* profile whose event a relay accepted, the profile is written published
\* in every case.
C21_CacheImportNeverFatal ==
    [][\A w \in Workers : \A s \in Slots :
          LET sl  == worker[w].slot[s]
              sl2 == worker'[w].slot[s]
              t   == sl.task
              h   == worker[w].held
          IN  /\ (worker[w].pc = "profile_cache" /\ worker'[w].pc # "profile_cache")
                    => (worker'[w].pc = "profile_write" /\ db' = db)
              /\ (worker[w].pc = "profile_write" /\ worker'[w].pc # "profile_write")
                    => /\ h.successful_relays # {}
                       /\ db'.jobs[h.item].profile_published = 1
                       /\ db'.jobs[h.item].profile_blossom_url = h.blossom_picture_url
              /\ (sl.pc = "complete" /\ sl2.pc # "complete")
                    => /\ sl.successful_relays # {}
                       /\ sl2.pc = "finally"
                       /\ db'.video_tasks[t] =
                             [db.video_tasks[t] EXCEPT
                                 !.status = "complete",
                                 !.nostr_event_id = EventIdOfPost(t),
                                 !.blossom_url = BlobUrl(1),
                                 !.blossom_urls =
                                     IF db.video_tasks[t].media_items > 1
                                     THEN [i \in 1..db.video_tasks[t].media_items |-> BlobUrl(i)]
                                     ELSE NULL]]_vars

\* A post written 'complete' after an import to the cache that failed.
C21_CompleteAfterFailedImport ==
    \E w \in Workers : \E s \in Slots :
        /\ worker[w].slot[s].pc = "finally"
        /\ worker[w].slot[s].cache_imported = "False"
        /\ db.video_tasks[worker[w].slot[s].task].status = "complete"

(***************************************************************************)
(* Profiles.                                                               *)
(***************************************************************************)
\* C22: in process_profile a failed download or upload of the picture does
\* not abort the profile: the kind-0 event is still built, without a
\* picture field, and published, and when a relay accepts it the profile
\* is marked published (1) with a null blob URL.
C22_PictureFailureDoesNotAbort ==
    [][\A w \in Workers :
          LET h  == worker[w].held
              h2 == worker'[w].held
          IN  /\ (/\ worker[w].pc = "process_profile"
                  /\ worker'[w].pc # "process_profile"
                  /\ KeyUsable(h.rows[h.item].secret_key_hex))
                    => /\ worker'[w].pc = "profile_publish"
                       /\ h2.event.kind = 0
                       /\ h2.event.content.name = h.rows[h.item].profile_name
                       /\ ("picture" \in DOMAIN h2.event.content)
                             <=> h2.blossom_picture_url # NULL
              /\ (/\ worker[w].pc = "profile_publish"
                  /\ worker'[w].pc = "profile_cache")
                    => h2.event = h.event
              /\ (/\ worker[w].pc = "profile_write"
                  /\ worker'[w].pc # "profile_write"
                  /\ h.blossom_picture_url = NULL)
                    => /\ "picture" \notin DOMAIN h.event.content
                       /\ db'.jobs[h.item].profile_published = 1
                       /\ db'.jobs[h.item].profile_blossom_url = NULL]_vars

\* A profile published without a picture, its source having one.
C22_PublishedWithoutPicture ==
    \E j \in Rows(db, "jobs") :
        /\ db.jobs[j].profile_picture_url # NULL
        /\ db.jobs[j].profile_published = 1
        /\ db.jobs[j].profile_blossom_url = NULL

(***************************************************************************)
(* SpecTick: one worker process alone on the store, so that every row in   *)
(* flight is in the hands of this process.                                 *)
(***************************************************************************)
NextTick == WorkerStep(1)

SpecTick == Init /\ [][NextTick]_vars

\* Where in its tick a worker is: 0 at the top of the loop and in the
\* cleanup pass, then the claim and the processing of a profile, of a
\* proposal and of a gift, then the gather of the tasks and the sleep.
TickStage(wk) ==
    CASE wk.pc \in {"reset_proposals", "reset_gifts", "loop", "cleanup"} -> 0
      [] wk.pc = "profile" -> 1
      [] wk.held.kind = "jobs" -> 2
      [] wk.pc = "proposal" -> 3
      [] wk.held.kind = "proposals" -> 4
      [] wk.pc = "gift" -> 5
      [] wk.held.kind = "gifts" -> 6
      [] wk.pc = "tasks" -> 7
      [] wk.pc = "sleep" -> 8
      [] OTHER -> 9

\* The posts between their claim and their final status write.
PostsInFlight(d) ==
    {t \in Rows(d, "video_tasks") : d.video_tasks[t].status \in {"uploading", "publishing"}}

SlotsBusy(wk) == {s \in Slots : wk.slot[s].task # NoRow}

\* C23: per tick one worker_loop claims at most one profile, one proposal
\* and one gift, each processed to its return before the next claim, and
\* at most CONCURRENCY posts; one worker process has at most CONCURRENCY
\* posts between claim and final status write.
C23_OneOfEachPerTick ==
    [][LET wk  == worker[1]
           wk2 == worker'[1]
       IN  /\ TickStage(wk2) # 9
           \* the tick only goes forward, and starts again from the gather
           \* or from the sleep
           /\ \/ TickStage(wk2) >= TickStage(wk)
              \/ TickStage(wk2) = 0 /\ TickStage(wk) \in {7, 8}
           \* a profile, a proposal, a gift is claimed in its own place of
           \* the tick, with nothing else in hand
           /\ (wk2.held.item # wk.held.item /\ wk2.held.item # NoRow)
                 => /\ TickStage(wk) \in {1, 3, 5}
                    /\ TickStage(wk2) = TickStage(wk) + 1
                    /\ wk.held = NoItem
                    /\ SlotsBusy(wk) = {}
           /\ TickStage(wk2) \in {1, 3, 5} => wk2.held = NoItem
           /\ wk2.held # NoItem => SlotsBusy(wk2) = {}
           \* the posts: claimed in the gather only, CONCURRENCY at most
           /\ PostsInFlight(db') \ PostsInFlight(db) # {} => TickStage(wk) = 7
           /\ PostsInFlight(db') = {wk2.slot[s].task : s \in SlotsBusy(wk2)}
                                     \ {t \in Rows(db', "video_tasks") :
                                           db'.video_tasks[t].status \notin
                                              {"uploading", "publishing"}}
           /\ Cardinality(PostsInFlight(db')) <= NumSlots]_vars

\* A second post is in flight after the first got its final status.
C23_SecondPostAfterFirst ==
    /\ Cardinality(PostsInFlight(db)) = NumSlots
    /\ \E t \in Rows(db, "video_tasks") : db.video_tasks[t].status = "complete"
    /\ \E t \in Rows(db, "video_tasks") : db.video_tasks[t].status = "uploading"

(***************************************************************************)
(* SpecLoop: the while loop of worker_loop, every call of a tick returning *)
(* or raising.  The store is left out: a claim returns a row or None, as   *)
(* the store may have it.                                                  *)
(***************************************************************************)
STATUS_LOG_INTERVAL == 60

LoopConcurrency == 2    \* CONCURRENCY: coroutines in the gather

MaxClockSteps == 3      \* the clock stops after so many steps forward

\* What a call in the tick does, and what a claim does.
CallOutcomes == {"returned", "raised"}
ClaimOutcomes == {"None", "row", "raised"}

\* claim_and_process_task: True after a processed post, False without a
\* post; an exception of the claim or of process_task comes out of the
\* coroutine.
CoroutineOutcomes == {"True", "False", "Exception"}

\* Seconds that pass between two readings of the clock.
Elapsed == {0, POLL_INTERVAL, STATUS_LOG_INTERVAL + 1, CLEANUP_INTERVAL + 1}

LoopStart ==
    [pc |-> "top", clock |-> StartTime, steps |-> 0, now |-> 0, last_cleanup |-> 0,
     last_status_log |-> 0, processed_any |-> FALSE, task_results |-> <<>>,
     claimed |-> "none", raised |-> FALSE]

StatusLogDue(t, last_status_log) == t - last_status_log > STATUS_LOG_INTERVAL

\* except Exception as e: the tick is left for the handler.
LoopRaise(l) == [l EXCEPT !.pc = "except", !.claimed = "none", !.raised = TRUE]

\* After the status log: the cleanup pass when it is due.
LoopAfterStatus(l) ==
    [l EXCEPT !.pc = IF CleanupDue(l.now, l.last_cleanup) THEN "cleanup" ELSE "profile"]

\* now = time.time()
LoopNow ==
    /\ io.pc = "top"
    /\ \E e \in Elapsed :
          LET t == io.clock + e
              l == [io EXCEPT !.clock = t, !.now = t, !.raised = FALSE,
                              !.steps = IF e > 0 THEN @ + 1 ELSE @,
                              !.processed_any = FALSE, !.task_results = <<>>]
          IN  /\ e > 0 => io.steps < MaxClockSteps
              /\ io' = IF StatusLogDue(t, l.last_status_log)
                       THEN [l EXCEPT !.pc = "status"]
                       ELSE LoopAfterStatus(l)
    /\ UNCHANGED storeVars

\* get_pending_proposals, get_pending_gifts, get_pending_tasks
LoopStatusLog ==
    /\ io.pc = "status"
    /\ \E o \in CallOutcomes :
          io' = IF o = "raised" THEN LoopRaise(io)
                ELSE LoopAfterStatus([io EXCEPT !.last_status_log = io.now])
    /\ UNCHANGED storeVars

\* check_disk_space, which catches what it raises, then the two cleanups
\* and the three resets.
LoopCleanup ==
    /\ io.pc = "cleanup"
    /\ \E o \in CallOutcomes :
          io' = IF o = "raised" THEN LoopRaise(io)
                ELSE [io EXCEPT !.last_cleanup = io.now, !.pc = "profile"]
    /\ UNCHANGED storeVars

LoopStages == <<"profile", "proposal", "gift", "gather">>

StageAfter(stage) == LoopStages[(CHOOSE i \in DOMAIN LoopStages : LoopStages[i] = stage) + 1]

\* profile = claim_next_unpublished_profile(), and the same for a proposal
\* and a gift.
LoopClaim ==
    /\ io.pc \in {"profile", "proposal", "gift"}
    /\ \E o \in ClaimOutcomes :
          io' = CASE o = "raised" -> LoopRaise(io)
                  [] o = "row" -> [io EXCEPT !.pc = "process", !.claimed = io.pc]
                  [] OTHER -> [io EXCEPT !.pc = StageAfter(io.pc)]
    /\ UNCHANGED storeVars

\* await process_profile(profile); processed_any = True
LoopProcess ==
    /\ io.pc = "process"
    /\ \E o \in CallOutcomes :
          io' = IF o = "raised" THEN LoopRaise(io)
                ELSE [io EXCEPT !.processed_any = TRUE, !.claimed = "none",
                                !.pc = StageAfter(io.claimed)]
    /\ UNCHANGED storeVars

\* sum(1 for r in task_results if r is True)
tasks_processed(task_results) ==
    Cardinality({i \in DOMAIN task_results : task_results[i] = "True"})

\* What asyncio.gather does with the exception of a coroutine: with
\* return_exceptions=True it is one of the results and nothing is raised.
gather_raises(task_results) == FALSE

\* task_results = await asyncio.gather(..., return_exceptions=True), then
\* the count, and the sleep of a tick without work.
LoopGather ==
    /\ io.pc = "gather"
    /\ \E results \in [1..LoopConcurrency -> CoroutineOutcomes] :
          LET any == io.processed_any \/ tasks_processed(results) > 0
              exc == \E i \in DOMAIN results : results[i] = "Exception"
          IN  io' = IF gather_raises(results)
                    THEN LoopRaise([io EXCEPT !.task_results = results])
                    ELSE [io EXCEPT !.task_results = results,
                                    !.processed_any = any,
                                    !.raised = exc,
                                    !.pc = IF any THEN "top" ELSE "sleep"]
    /\ UNCHANGED storeVars

\* print(f"Worker loop error: {e}")
LoopExcept ==
    /\ io.pc = "except"
    /\ io' = [io EXCEPT !.pc = "sleep"]
    /\ UNCHANGED storeVars

\* await asyncio.sleep(POLL_INTERVAL)
LoopSleep ==
    /\ io.pc = "sleep"
    /\ io' = [io EXCEPT !.pc = "top"]
    /\ UNCHANGED storeVars

InitLoop ==
    /\ io = LoopStart
    /\ db = EmptyStore
    /\ now = StartTime
    /\ worker = [w \in Workers |-> StartedWorker]
    /\ killed = 0
    /\ call = [c \in Callers |-> IdleCall]
    /\ returned = [n \in ClaimNames |-> [r \in RowIds |-> 0]]
    /\ lastOp = NoOp

NextLoop ==
    \/ LoopNow
    \/ LoopStatusLog
    \/ LoopCleanup
    \/ LoopClaim
    \/ LoopProcess
    \/ LoopGather
    \/ LoopExcept
    \/ LoopSleep

SpecLoop == InitLoop /\ [][NextLoop]_vars

\* C24: the scheduler loop never exits: any exception raised inside a tick
\* (by a claim, a processor, a status query or a cleanup step) is caught
\* and the next tick begins after a sleep of POLL_INTERVAL; a tick that
\* dispatched no work also sleeps POLL_INTERVAL before the next tick.
C24_TickExceptionsCaughtThenSleep ==
    [][/\ io'.pc \in {"top", "status", "cleanup", "except", "sleep", "gather",
                       "profile", "proposal", "gift", "process"}
       /\ (io'.pc = "top" /\ (io.raised \/ io'.raised \/ ~io'.processed_any))
             => io.pc = "sleep"]_vars

\* The same for the exceptions that reach the try of the loop, those of
\* the gathered coroutines left aside.
ExceptionsOutsideGatherCaughtThenSleep ==
    [][(io'.pc = "top" /\ (io.raised \/ ~io'.processed_any))
          => io.pc = "sleep"]_vars

(***************************************************************************)
(* SpecCleanup: the three cleanup functions of db.py on a store of parents *)
(* of one family, some of them due for deletion or about to be, with and   *)
(* without a post and an article, while the clock advances.                *)
(***************************************************************************)
CleanupFamilies == {"proposals", "gifts", "migrations"}

ArticlesOf(fam) == CASE fam = "proposals" -> "proposal_articles"
                     [] fam = "gifts" -> "gift_articles"
                     [] fam = "migrations" -> "migration_articles"

\* What a parent can be when the model starts.
ParentStates(fam) ==
    IF fam = "migrations"
    THEN {[ParentRow(StartTime) EXCEPT !.status = "processing"],
          [ParentRow(StartTime - MIGRATION_RETENTION_DAYS * 86400 - 1)
              EXCEPT !.status = "complete"],
          [ParentRow(StartTime - MIGRATION_RETENTION_DAYS * 86400 + 1)
              EXCEPT !.status = "complete"]}
    ELSE {OfferRow(StartTime, FarFuture),
          OfferRow(StartTime, StartTime - 1),
          OfferRow(StartTime, StartTime + 1),
          [OfferRow(StartTime, StartTime - 1) EXCEPT
              !.status = "claimed", !.claimed_at = StartTime],
          [OfferRow(StartTime, StartTime - 1) EXCEPT
              !.status = "claimed",
              !.claimed_at = StartTime - CLAIMED_RETENTION_DAYS * 86400 - 1]}

\* The parents the cleanup of the family selects at time t.
Selected(d, fam, t) ==
    IF fam = "migrations" THEN CompletedBefore(d, t, MIGRATION_RETENTION_DAYS)
    ELSE Expired(d, fam, t)

CleanupOf(d, fam, t) ==
    CASE fam = "proposals" -> cleanup_expired_proposals(d, t[1], t[2], t[3])
      [] fam = "gifts" -> cleanup_expired_gifts(d, t[1], t[2], t[3])
      [] fam = "migrations" ->
            cleanup_completed_migrations(d, t[1], t[2], t[3], t[4], MIGRATION_RETENTION_DAYS)

\* One call of a cleanup function, the clock read once per statement.
RunCleanup(fam) ==
    /\ \E t \in ClockReadings :
          /\ db' = CleanupOf(db, fam, t)
          /\ now' = t[4]
    /\ io' = [pc |-> "cleaned", fam |-> fam,
              gone |-> Rows(db, fam) \ Rows(db', fam),
              children |-> {fk \in ForeignKeys :
                              /\ fk.parent = fam
                              /\ References(db, fk, Rows(db, fam) \ Rows(db', fam)) # {}}]
    /\ UNCHANGED <<call, returned, lastOp, worker, killed>>

CleanupTick ==
    /\ now < StartTime + MaxTicks
    /\ now' = now + 1
    /\ io' = NoCall
    /\ UNCHANGED <<db, call, returned, lastOp, worker, killed>>

InitCleanup ==
    /\ \E fam \in CleanupFamilies :
       \E parent \in [RowIds -> ParentStates(fam)] :
       \E posts \in SUBSET RowIds, articles \in SUBSET RowIds :
          db = [EmptyStore EXCEPT
                  ![fam] = parent,
                  ![PostsOf(fam)] = [r \in posts |-> ChildRow(KeyOf(fam), r, "ready")],
                  ![ArticlesOf(fam)] = [r \in articles |-> ChildRow(KeyOf(fam), r, "ready")]]
    /\ now = StartTime
    /\ io = NoCall
    /\ worker = [w \in Workers |-> StartedWorker]
    /\ killed = 0
    /\ call = [c \in Callers |-> IdleCall]
    /\ returned = [n \in ClaimNames |-> [r \in RowIds |-> 0]]
    /\ lastOp = NoOp

NextCleanup ==
    \/ \E fam \in CleanupFamilies : RunCleanup(fam)
    \/ CleanupTick

SpecCleanup == InitCleanup /\ [][NextCleanup]_vars

\* The child rows whose parent is not in the store.
Orphans(d) ==
    {<<fk.child, q>> : fk \in ForeignKeys, q \in RowIds} \cap
    {x \in (DOMAIN d) \X RowIds :
        \E fk \in ForeignKeys :
           /\ fk.child = x[1]
           /\ x[2] \in Rows(d, fk.child)
           /\ d[fk.child][x[2]][fk.key] \notin Rows(d, fk.parent)}

\* C25: cascade delete leaves no orphans: after cleanup_expired_proposals,
\* cleanup_expired_gifts or cleanup_completed_migrations removes a parent
\* row, no post and no article that referenced that parent remains in the
\* store, and the cleanup completes: the parents it counted are deleted.
C25_CascadeLeavesNoOrphans ==
    [][io'.pc = "cleaned" =>
          LET fam  == io'.fam
              gone == Rows(db, fam) \ Rows(db', fam)
          IN  /\ \A fk \in ForeignKeys :
                    fk.parent = fam => References(db', fk, gone) = {}
              /\ Orphans(db') = {}
              /\ Selected(db, fam, now) \subseteq gone
              /\ gone \subseteq Selected(db, fam, now')]_vars

\* A cleanup has removed a parent that had a post and an article, and
\* another parent is left with its children.
C25_ParentGoneWithChildren ==
    /\ io.pc = "cleaned"
    /\ io.gone # {}
    /\ Cardinality(io.children) = 2
    /\ \E fk \in ForeignKeys :
          fk.parent = io.fam /\ fk.child = ArticlesOf(io.fam) /\ Rows(db, fk.child) # {}

(***************************************************************************)
(* SpecEvent: an event from its construction to the relay or blob store    *)
(* that parses it.  A string is a sequence of characters, JSON text a      *)
(* sequence of the characters json.dumps writes.                           *)
(***************************************************************************)
MaxText == 2            \* characters of a caption or a profile name

\* The characters of the model: a letter, a letter outside ASCII, and the
\* characters JSON escapes.
Chars == {"a", "U+00E9", "QUOTE", "BACKSLASH", "LF"}

Texts == UNION {[1..n -> Chars] : n \in 0..MaxText}

\* A word of the program text, its characters taken together.
Word(w) == <<w>>

RECURSIVE Flatten(_)
Flatten(seqs) == IF seqs = <<>> THEN <<>> ELSE Head(seqs) \o Flatten(Tail(seqs))

\* json.dumps of one character of a str.
EscapeChar(c, ensure_ascii) ==
    CASE c = "QUOTE" -> <<"BACKSLASH", "QUOTE">>
      [] c = "BACKSLASH" -> <<"BACKSLASH", "BACKSLASH">>
      [] c = "LF" -> <<"BACKSLASH", "n">>
      [] c = "U+00E9" /\ ensure_ascii -> <<"BACKSLASH", "u00e9">>
      [] OTHER -> <<c>>

\* json.dumps of a str.
dumps_str(text, ensure_ascii) ==
    <<"QUOTE">> \o Flatten([i \in DOMAIN text |-> EscapeChar(text[i], ensure_ascii)])
                \o <<"QUOTE">>

\* json.loads of the inside of a JSON string.
RECURSIVE Unescape(_)
Unescape(t) ==
    IF t = <<>> THEN <<>>
    ELSE IF Head(t) = "BACKSLASH"
    THEN <<CASE t[2] = "n" -> "LF"
             [] t[2] = "u00e9" -> "U+00E9"
             [] OTHER -> t[2]>> \o Unescape(Tail(Tail(t)))
    ELSE <<Head(t)>> \o Unescape(Tail(t))

loads_str(json) == Unescape(SubSeq(json, 2, Len(json) - 1))

\* json.dumps of a list, the items already written, with the item
\* separator given.
RECURSIVE Join(_, _)
Join(items, sep) ==
    IF items = <<>> THEN <<>>
    ELSE IF Len(items) = 1 THEN items[1]
    ELSE items[1] \o sep \o Join(Tail(items), sep)

dumps_list(items, sep) == <<"[">> \o Join(items, sep) \o <<"]">>

\* json.dumps of tags, a list of lists of str.
dumps_tags(tags, sep, ensure_ascii) ==
    dumps_list([i \in DOMAIN tags |->
                  dumps_list([j \in DOMAIN tags[i] |-> dumps_str(tags[i][j], ensure_ascii)],
                             sep)], sep)

\* The serialization sign_event hashes: json.dumps([0, pubkey, created_at,
\* kind, tags, content], separators=(",", ":"), ensure_ascii=False).
serialized_with(event, ensure_ascii) ==
    dumps_list(<<Word("0"),
                 dumps_str(event.pubkey, ensure_ascii),
                 Word(ToString(event.created_at)),
                 Word(ToString(event.kind)),
                 dumps_tags(event.tags, Word(","), ensure_ascii),
                 dumps_str(event.content, ensure_ascii)>>, Word(","))

serialized_ascii(event) == serialized_with(event, TRUE)

serialized(event) == serialized_with(event, FALSE)

\* hashlib.sha256(serialized.encode()).hexdigest()
hexdigest(text) == <<"sha256">> \o text

\* sign_event: the id, and the signature over it.
sign_event(event, secret_key_hex) ==
    [f \in DOMAIN event \cup {"id", "sig"} |->
        CASE f = "id" -> hexdigest(serialized(event))
          [] f = "sig" -> <<"schnorr", secret_key_hex>> \o hexdigest(serialized(event))
          [] OTHER -> event[f]]

\* create_blossom_auth_event, before the signing.
blossom_auth_event(public_key_hex, file_hash, t) ==
    [kind |-> 24242, pubkey |-> public_key_hex, created_at |-> t,
     tags |-> <<<<Word("t"), Word("upload")>>,
                <<Word("x"), file_hash>>,
                <<Word("expiration"), Word(ToString(t + 300))>>>>,
     content |-> Word("Upload video to Blossom")]

\* str.strip(), of the line feeds.
RECURSIVE lstrip(_)
lstrip(text) == IF text # <<>> /\ Head(text) = "LF" THEN lstrip(Tail(text)) ELSE text

\* create_post_event with one media item, before the signing: the caption
\* with the URL of the media after it.
post_event(public_key_hex, url, file_hash, caption, t) ==
    [kind |-> 1, pubkey |-> public_key_hex, created_at |-> t,
     tags |-> <<<<Word("imeta"), Word("url ") \o url, Word("x ") \o file_hash,
                  Word("m video/mp4"), Word("size 1")>>>>,
     content |-> lstrip(caption \o <<"LF", "LF">> \o url)]

\* create_profile_event, before the signing: the content is the JSON text
\* of the profile, json.dumps with ensure_ascii left on.
profile_event(public_key_hex, name, t) ==
    [kind |-> 0, pubkey |-> public_key_hex, created_at |-> t,
     tags |-> <<>>,
     content |-> Word("{") \o dumps_str(Word("name"), TRUE) \o Word(": ")
                   \o dumps_str(name, TRUE) \o Word("}")]

\* json.dumps(["EVENT", event]) and json.dumps(signed): the fields as they
\* go over the wire, ASCII only.
dumps_event(event) ==
    [f \in DOMAIN event |->
        CASE f \in {"pubkey", "content", "id", "sig"} -> dumps_str(event[f], TRUE)
          [] f = "tags" -> dumps_tags(event.tags, Word(", "), TRUE)
          [] OTHER -> Word(ToString(event[f]))]

\* base64.b64encode and the decoding of the blob store.
b64encode(text) == <<"base64", text>>

b64decode(b64) == b64[2]

\* What the relay or the blob store reads: the str fields of the event.
loads_event(wire) ==
    [f \in {"pubkey", "content", "id", "sig"} |-> loads_str(wire[f])]

\* The serialization the receiver hashes, from what it received.
received_serialized(wire) ==
    dumps_list(<<Word("0"),
                 dumps_str(loads_str(wire.pubkey), FALSE),
                 wire.created_at,
                 wire.kind,
                 [i \in DOMAIN wire.tags |->
                     IF wire.tags[i] = ", " THEN "," ELSE wire.tags[i]],
                 dumps_str(loads_str(wire.content), FALSE)>>, Word(","))

EventKinds == {24242, 1, 0}

PublicKeyHex == Word("ab")
FileHash == Word("cd")
MediaUrl == Word("https://blossom/cd.mp4")

\* The event is built.
EventCreate ==
    /\ io.pc = "create"
    /\ io' = [io EXCEPT
                !.pc = "sign",
                !.event = CASE io.kind = 24242 ->
                                  blossom_auth_event(PublicKeyHex, FileHash, now)
                            [] io.kind = 1 ->
                                  post_event(PublicKeyHex, MediaUrl, FileHash, io.text, now)
                            [] io.kind = 0 ->
                                  profile_event(PublicKeyHex, io.text, now)]
    /\ UNCHANGED storeVars

\* sign_event
EventSign ==
    /\ io.pc = "sign"
    /\ io' = [io EXCEPT !.pc = "send", !.event = sign_event(io.event, "KEY")]
    /\ UNCHANGED storeVars

\* ws.send(json.dumps(["EVENT", event])); for the blob store, the header
\* "Nostr " + base64 of json.dumps(signed).
EventSend ==
    /\ io.pc = "send"
    /\ io' = [io EXCEPT
                !.pc = "sent",
                !.wire = IF io.kind = 24242
                         THEN <<"Nostr ", b64encode(dumps_event(io.event))>>
                         ELSE <<"EVENT", dumps_event(io.event)>>]
    /\ UNCHANGED storeVars

\* The relay or the blob store parses what it was sent.
EventReceive ==
    /\ io.pc = "sent"
    /\ io' = [io EXCEPT
                !.pc = "received",
                !.received = IF io.kind = 24242 THEN b64decode(io.wire[2])
                             ELSE io.wire[2]]
    /\ UNCHANGED storeVars

InitEvent ==
    /\ \E kind \in EventKinds, text \in Texts :
          io = [pc |-> "create", kind |-> kind, text |-> text,
                event |-> <<>>, wire |-> <<>>, received |-> <<>>]
    /\ db = EmptyStore
    /\ \E t \in {StartTime, StartTime + 1} : now = t
    /\ worker = [w \in Workers |-> StartedWorker]
    /\ killed = 0
    /\ call = [c \in Callers |-> IdleCall]
    /\ returned = [n \in ClaimNames |-> [r \in RowIds |-> 0]]
    /\ lastOp = NoOp

NextEvent ==
    \/ EventCreate
    \/ EventSign
    \/ EventSend
    \/ EventReceive

SpecEvent == InitEvent /\ [][NextEvent]_vars

\* C26: for every event the worker sends to a blob store or relay (kinds
\* 24242, 1 and 0) the id equals the SHA-256 of the canonical serialization
\* [0, pubkey, created_at, kind, tags, content] of the fields the event
\* carries when it is sent: the event sent is the event signed, and what
\* the receiver hashes from the fields it parsed gives the id it parsed.
C26_IdIsHashOfFieldsSent ==
    /\ io.pc \in {"send", "sent", "received"}
          => /\ io.event.id = hexdigest(serialized(io.event))
             /\ io.event.kind = io.kind
    /\ io.pc \in {"sent", "received"}
          => (IF io.kind = 24242 THEN b64decode(io.wire[2]) ELSE io.wire[2])
                = dumps_event(io.event)
    /\ io.pc = "received"
          => /\ loads_event(io.received) =
                   [f \in {"pubkey", "content", "id", "sig"} |-> io.event[f]]
             /\ hexdigest(received_serialized(io.received)) = loads_str(io.received.id)

\* An event with a letter outside ASCII and a character JSON escapes has
\* been received.
C26_ReceivedWithEscapes ==
    /\ io.pc = "received"
    /\ "U+00E9" \in Range(io.text)
    /\ Range(io.text) \cap {"QUOTE", "BACKSLASH", "LF"} # {}
    /\ io.kind # 24242

(***************************************************************************)
(* SpecSchnorr: schnorr_sign and the verification of BIP-340, on a curve   *)
(* y^2 = x^3 + 7 small enough to enumerate: over the field of 13 elements  *)
(* it has a group of prime order 7, as secp256k1 has a group of prime      *)
(* order.  SHA-256 is a function chosen by a salt.                         *)
(***************************************************************************)
FieldPrime == 13

CurveB == 7

ORDER == 7

G == <<7, 5>>

Infinity == <<0, 0>>

NumDigests == 2         \* event ids to sign

FieldInverse(a) == CHOOSE z \in 1..(FieldPrime - 1) : (z * a) % FieldPrime = 1

OnCurve(pt) == (pt[2] * pt[2]) % FieldPrime = (pt[1] * pt[1] * pt[1] + CurveB) % FieldPrime

Negate(pt) == IF pt = Infinity THEN Infinity ELSE <<pt[1], (FieldPrime - pt[2]) % FieldPrime>>

\* The group law of the curve.
PointAdd(p1, p2) ==
    IF p1 = Infinity THEN p2
    ELSE IF p2 = Infinity THEN p1
    ELSE IF p1[1] = p2[1] /\ p1[2] # p2[2] THEN Infinity
    ELSE IF p1 = p2 /\ p1[2] = 0 THEN Infinity
    ELSE LET lam == IF p1 = p2
                    THEN (3 * p1[1] * p1[1] * FieldInverse((2 * p1[2]) % FieldPrime))
                            % FieldPrime
                    ELSE ((p2[2] - p1[2] + FieldPrime)
                            * FieldInverse((p2[1] - p1[1] + FieldPrime) % FieldPrime))
                            % FieldPrime
             x3 == (lam * lam + 2 * FieldPrime - p1[1] - p2[1]) % FieldPrime
         IN  <<x3, (lam * (p1[1] + FieldPrime - x3) + FieldPrime - p1[2]) % FieldPrime>>

\* k * pt
RECURSIVE PointMul(_, _)
PointMul(k, pt) == IF k = 0 THEN Infinity ELSE PointAdd(pt, PointMul(k - 1, pt))

has_even_y(point) == point[2] % 2 = 0

\* hashlib.sha256 behind tagged_hash, as a number modulo ORDER: one function
\* of the bytes hashed for every salt.
tagged_hash(salt, rx, pk, message) == (salt + rx + 3 * pk + 5 * message) % ORDER

\* d = ORDER - d, k = ORDER - k0: when the point has an odd Y.
negate_never(x, point) == x

negate_if_odd_y(x, point) == IF has_even_y(point) THEN x ELSE ORDER - x

\* schnorr_sign; k0 is what the nonce hash gives.  The signature is
\* (rx, s), or nothing when k0 is zero and ValueError is raised.
schnorr_sign(secret_key, message, k0, salt) ==
    LET P  == PointMul(secret_key, G)
        d  == negate_if_odd_y(secret_key, P)
        pk == P[1]
        R  == PointMul(k0, G)
        k  == negate_if_odd_y(k0, R)
        rx == R[1]
        e  == tagged_hash(salt, rx, pk, message)
        s  == (k + e * d) % ORDER
    IN  IF k0 = 0 THEN <<>> ELSE <<rx, s>>

\* get_public_key_bytes, generate_temp_keypair: the X of the public point.
get_public_key_bytes(secret_key) == PointMul(secret_key, G)[1]

\* The point of even Y with this X, if there is one.
LiftX(x) ==
    LET S == {pt \in (0..(FieldPrime - 1)) \X (0..(FieldPrime - 1)) :
                 pt[1] = x /\ OnCurve(pt) /\ has_even_y(pt)}
    IN  IF S = {} THEN Infinity ELSE CHOOSE pt \in S : TRUE

\* The verification of BIP-340 by the relay: R = s*G - e*P is a point of
\* even Y with X = rx.
VerifySchnorr(pk, message, sig, salt) ==
    LET P == LiftX(pk)
        e == tagged_hash(salt, sig[1], pk, message)
        R == PointAdd(PointMul(sig[2], G), Negate(PointMul(e, P)))
    IN  /\ P # Infinity
        /\ sig[2] < ORDER
        /\ R # Infinity
        /\ has_even_y(R)
        /\ R[1] = sig[1]

\* The secret keys, and the digests an event id can be.
SecretKeys == 1..(ORDER - 1)

Digests == 0..(NumDigests - 1)

\* sig = schnorr_sign(secret_key_hex, msg_hash)
SchnorrSign ==
    /\ io.pc = "sign"
    /\ \E k0 \in 0..(ORDER - 1) :
          LET sig == schnorr_sign(io.secret_key, io.id, k0, io.salt)
          IN  io' = [io EXCEPT !.pc = IF sig = <<>> THEN "raised" ELSE "signed",
                               !.sig = sig, !.k0 = k0]
    /\ UNCHANGED storeVars

\* The relay verifies the event it received.
SchnorrVerify ==
    /\ io.pc = "signed"
    /\ io' = [io EXCEPT !.pc = "verified",
                        !.valid = VerifySchnorr(io.pubkey, io.id, io.sig, io.salt)]
    /\ UNCHANGED storeVars

\* The key pair of the event is one generate_temp_keypair made, or the two
\* key columns of a job.
InitSchnorr ==
    /\ \E secret_key \in SecretKeys, stored \in SecretKeys, id \in Digests,
          salt \in 0..(ORDER - 1) :
          io = [pc |-> "sign", secret_key |-> secret_key,
                pubkey |-> get_public_key_bytes(stored),
                id |-> id, salt |-> salt, sig |-> <<>>, k0 |-> 0, valid |-> FALSE]
    /\ db = EmptyStore
    /\ now = StartTime
    /\ worker = [w \in Workers |-> StartedWorker]
    /\ killed = 0
    /\ call = [c \in Callers |-> IdleCall]
    /\ returned = [n \in ClaimNames |-> [r \in RowIds |-> 0]]
    /\ lastOp = NoOp

NextSchnorr == SchnorrSign \/ SchnorrVerify

SpecSchnorr == InitSchnorr /\ [][NextSchnorr]_vars

\* C27: for every event signed by sign_event whose pubkey is the x-only
\* public key of the secret key used by schnorr_sign, the BIP-340
\* verification of sig against the event's pubkey and id succeeds, the
\* secret negated when the public point has odd Y and the nonce negated
\* when R has odd Y.
C27_SignatureVerifies ==
    (io.pc = "verified" /\ io.pubkey = get_public_key_bytes(io.secret_key)) => io.valid

\* A verified signature where both the public point and R have odd Y.
C27_VerifiedWithBothNegated ==
    /\ io.pc = "verified"
    /\ io.valid
    /\ io.pubkey = get_public_key_bytes(io.secret_key)
    /\ ~has_even_y(PointMul(io.secret_key, G))
    /\ ~has_even_y(PointMul(io.k0, G))

(***************************************************************************)
(* SpecMarkdown: extract_markdown_images and replace_markdown_images on    *)
(* Markdown text, character by character, as the regular expression        *)
(* !\[.*?\]\(([^\s\)]+) reads it.  A text is put together from the pieces  *)
(* of the image syntax.                                                    *)
(***************************************************************************)
MaxPieces == 6          \* pieces of a Markdown text

Pieces == {<<"!", "[">>, <<"]", "(">>, <<")">>, <<"]">>, <<"a">>, <<" ">>}

\* The texts of n pieces.
MarkdownTexts(n) == {Flatten(ps) : ps \in [1..n -> Pieces]}

\* The URLs the uploads return.
BlobUrls == {<<"k">>, <<"a">>}

\* [^\s\)]
UrlChar(c) == c \notin {" ", ")"}

\* ([^\s\)]+), from its first character: where the longest run ends.
RECURSIVE RunEnd(_, _)
RunEnd(text, j) ==
    IF j + 1 <= Len(text) /\ UrlChar(text[j + 1]) THEN RunEnd(text, j + 1) ELSE j

\* Where \]\( followed by a URL character can stand after ![ at i.
AltEnds(text, i) ==
    {j \in (i + 2)..(Len(text) - 2) :
        text[j] = "]" /\ text[j + 1] = "(" /\ UrlChar(text[j + 2])}

\* The pattern matches at i: .*? takes the first place it can.
MatchesAt(text, i) ==
    /\ i + 1 <= Len(text)
    /\ text[i] = "!"
    /\ text[i + 1] = "["
    /\ AltEnds(text, i) # {}

MatchAt(text, i) ==
    LET j == CHOOSE a \in AltEnds(text, i) : \A b \in AltEnds(text, i) : a <= b
    IN  [start |-> i, url |-> j + 2, end |-> RunEnd(text, j + 2)]

\* re.findall(pattern, markdown): the group of every match, left to right.
RECURSIVE findall(_, _)
findall(text, i) ==
    IF i > Len(text) THEN <<>>
    ELSE IF MatchesAt(text, i)
    THEN LET mt == MatchAt(text, i)
         IN  <<SubSeq(text, mt.url, mt.end)>> \o findall(text, mt.end + 1)
    ELSE findall(text, i + 1)

extract_images(markdown) == findall(markdown, 1)

\* str.replace(old, new): every occurrence, left to right.
RECURSIVE str_replace(_, _, _)
str_replace(str, old, new) ==
    IF Len(str) < Len(old) THEN str
    ELSE IF SubSeq(str, 1, Len(old)) = old
    THEN new \o str_replace(SubSeq(str, Len(old) + 1, Len(str)), old, new)
    ELSE <<Head(str)>> \o str_replace(Tail(str), old, new)

\* replacer(match)
replacer(full_match, original_url, url_mapping) ==
    IF original_url \in DOMAIN url_mapping
    THEN str_replace(full_match, original_url, url_mapping[original_url])
    ELSE full_match

\* re.sub(pattern, replacer, markdown)
RECURSIVE sub(_, _, _)
sub(text, i, url_mapping) ==
    IF i > Len(text) THEN <<>>
    ELSE IF MatchesAt(text, i)
    THEN LET mt == MatchAt(text, i)
         IN  replacer(SubSeq(text, mt.start, mt.end), SubSeq(text, mt.url, mt.end),
                      url_mapping)
                \o sub(text, mt.end + 1, url_mapping)
    ELSE <<text[i]>> \o sub(text, i + 1, url_mapping)

replace_images(markdown, url_mapping) == sub(markdown, 1, url_mapping)

\* The map that sends every URL of the text to one value.
ConstantMap(markdown, value) == [u \in Range(extract_images(markdown)) |-> value]

\* rewritten = replace_markdown_images(content_markdown, url_mapping)
MarkdownReplace ==
    /\ io.pc = "replace"
    /\ io' = [io EXCEPT !.pc = "again",
                        !.once = replace_images(io.md, ConstantMap(io.md, io.value))]
    /\ UNCHANGED storeVars

\* The same rewrite, with the same map, of the rewritten text.
MarkdownReplaceAgain ==
    /\ io.pc = "again"
    /\ io' = [io EXCEPT !.pc = "done",
                        !.twice = replace_images(io.once, ConstantMap(io.md, io.value))]
    /\ UNCHANGED storeVars

InitMarkdown ==
    /\ \E n \in 1..MaxPieces, value \in BlobUrls : \E md \in MarkdownTexts(n) :
          /\ extract_images(md) # <<>>
          /\ io = [pc |-> "replace", md |-> md, value |-> value,
                   once |-> <<>>, twice |-> <<>>]
    /\ db = EmptyStore
    /\ now = StartTime
    /\ worker = [w \in Workers |-> StartedWorker]
    /\ killed = 0
    /\ call = [c \in Callers |-> IdleCall]
    /\ returned = [n \in ClaimNames |-> [r \in RowIds |-> 0]]
    /\ lastOp = NoOp

NextMarkdown == MarkdownReplace \/ MarkdownReplaceAgain

SpecMarkdown == InitMarkdown /\ [][NextMarkdown]_vars

\* C28: for every Markdown text md and every constant map m of the URLs
\* of extract_markdown_images(md) to one value, replace_markdown_images
\* applied twice gives what it gives applied once; URLs that are not keys
\* of the map are left unchanged.
C28_ReplaceIsIdempotent ==
    /\ io.pc = "done" => io.twice = io.once
    /\ io.pc \in {"again", "done"} => replace_images(io.md, <<>>) = io.md

\* The same for the texts whose URLs hold no character of the image
\* syntax.
PlainUrlsReplaceIsIdempotent ==
    (\A u \in Range(extract_images(io.md)) : Range(u) \subseteq {"a"})
       => /\ io.pc = "done" => io.twice = io.once
          /\ io.pc \in {"again", "done"} =>
                /\ replace_images(io.md, <<>>) = io.md
                /\ \A u \in Range(extract_images(io.once)) : u = io.value

(***************************************************************************)
(* SpecJob: worker processes finishing the posts of one job.  The count    *)
(* query of update_job_status runs outside a transaction, which sqlite3    *)
(* opens before the UPDATE only, so that the statements of two processes   *)
(* interleave.                                                             *)
(***************************************************************************)
IdleFinisher == [pc |-> "idle", task |-> NoRow, new_status |-> "none"]

\* task = claim_next_pending_task()
JobClaim(w) ==
    /\ io[w].pc = "idle"
    /\ \E r \in ClaimSelect(db, claim_next_pending_task) :
          /\ db' = ClaimUpdate(db, claim_next_pending_task, r, now)
          /\ io' = [io EXCEPT ![w] = [IdleFinisher EXCEPT !.pc = "work", !.task = r]]
    /\ UNCHANGED storeRest

\* The final status write of process_task: 'complete', or after a failure
\* 'pending' again or 'error'.
JobFinish(w) ==
    /\ io[w].pc = "work"
    /\ \E complete \in BOOLEAN :
          db' = IF complete
                THEN update_task_status(db, io[w].task, "complete",
                                        BlobUrl(1), NULL, EventIdOfPost(io[w].task), NULL, FALSE)
                ELSE IF RetryAllowed(get_task_retry_count(db, io[w].task))
                THEN update_task_status(db, io[w].task, "pending", NULL, NULL, NULL, error_msg, TRUE)
                ELSE update_task_status(db, io[w].task, "error", NULL, NULL, NULL,
                                        MaxRetriesExceeded(error_msg), FALSE)
    /\ io' = [io EXCEPT ![w].pc = "select"]
    /\ UNCHANGED storeRest

\* finally: update_job_status(job_id), its count query.
JobSelect(w) ==
    /\ io[w].pc = "select"
    /\ io' = [io EXCEPT ![w].pc = "update",
                        ![w].new_status =
                            JobNewStatus(db, db.video_tasks[io[w].task].job_id)]
    /\ UNCHANGED storeVars

\* Its UPDATE and the commit; process_task returns.
JobUpdate(w) ==
    /\ io[w].pc = "update"
    /\ db' = JobStatusWrite(db, db.video_tasks[io[w].task].job_id, io[w].new_status, now)
    /\ io' = [io EXCEPT ![w] = IdleFinisher]
    /\ UNCHANGED storeRest

InitJob ==
    /\ \E retries \in [RowIds -> {0, MAX_RETRIES}] :
          db = [ScenarioStore("tasks") EXCEPT
                  !.video_tasks = [r \in RowIds |->
                      [ScenarioStore("tasks").video_tasks[r] EXCEPT
                          !.retry_count = retries[r]]]]
    /\ io = [w \in Workers |-> IdleFinisher]
    /\ now = StartTime
    /\ worker = [w \in Workers |-> StartedWorker]
    /\ killed = 0
    /\ call = [c \in Callers |-> IdleCall]
    /\ returned = [n \in ClaimNames |-> [r \in RowIds |-> 0]]
    /\ lastOp = NoOp

NextJob ==
    \E w \in Workers :
        \/ JobClaim(w)
        \/ JobFinish(w)
        \/ JobSelect(w)
        \/ JobUpdate(w)

SpecJob == InitJob /\ [][NextJob]_vars

\* C29: for every interleaving of the update_job_status calls of workers
\* that finish posts of the same job, once every post of the job is
\* terminal and every process_task has returned, the status of the job is
\* terminal (complete or error) and not left at 'processing'.
C29_JobTerminalAfterLastPost ==
    \A j \in Rows(db, "jobs") :
        (/\ \A w \in Workers : io[w].pc = "idle"
         /\ \A t \in Rows(db, "video_tasks") :
               db.video_tasks[t].job_id = j
                  => db.video_tasks[t].status \in {"complete", "error"})
           => db.jobs[j].status \in {"complete", "error"}

(***************************************************************************)
(* SpecProfile: the workers on a job that has a profile to publish and a   *)
(* post, the clock going on by a cleanup interval while they sleep.        *)
(***************************************************************************)
ProfileStep(w) ==
    \/ process_profile(w)
    \/ ProfilePublish(w)
    \/ ProfileCacheImport(w)
    \/ ProfileWrite(w)

InitProfile ==
    /\ db = [EmptyStore EXCEPT
               !.jobs = [j \in {1} |-> JobRow(StartTime, "name")],
               !.video_tasks = [r \in {1} |-> TaskRow(1, StartTime + 1)]]
    /\ now = StartTime
    /\ worker = [w \in Workers |-> StartedWorker]
    /\ killed = 0
    /\ call = [c \in Callers |-> IdleCall]
    /\ returned = [n \in ClaimNames |-> [r \in RowIds |-> 0]]
    /\ lastOp = NoOp
    /\ io = NoCall

NextProfile ==
    \/ \E w \in Workers : SchedulerStep(w)
    \/ \E w \in Workers : ProfileStep(w)
    \/ HourPasses

SpecProfile == InitProfile /\ [][NextProfile]_vars

\* C30: profile publication is not starved by key scrubbing: the secret
\* key of the job is still usable whenever its profile is claimed, also
\* when all posts of the job finished (and update_job_status scrubbed the
\* key) before the profile was claimed or after an earlier attempt was
\* rejected by all relays; so that a job with a profile name never has its
\* key scrubbed while the profile is short of published (1), from where no
\* attempt can publish it.
C30_KeyUsableWhenProfileClaimed ==
    [][\A w \in Workers :
          (worker[w].pc = "profile" /\ worker'[w].pc = "process_profile")
             => KeyUsable(worker'[w].held.rows[worker'[w].held.item].secret_key_hex)]_vars

(***************************************************************************)
(* SpecAttempts: the task part of worker_loop and process_task, attempt by *)
(* attempt, for worker processes with one task coroutine each.  io.p is    *)
(* where each process is; io.attempts, io.published and io.unslept are     *)
(* history: how often a post was claimed, in how many attempts a relay     *)
(* accepted its event, and the posts whose attempt failed in a loop since  *)
(* that loop last slept.                                                   *)
(***************************************************************************)
IdleAttempt == [pc |-> "claim", task |-> NoRow, retry_count |-> 0, processed |-> FALSE]

\* The UPDATE of update_task_status(task_id, "complete", ...) commits, or
\* raises sqlite3.OperationalError when the store is not available.
StoreOutcomes == {"committed", "OperationalError"}

\* task = claim_next_pending_task(): without a task the coroutine returns
\* False.
AttemptClaim(w) ==
    /\ io.p[w].pc = "claim"
    /\ LET S == ClaimSelect(db, claim_next_pending_task)
       IN  IF S = {}
           THEN /\ io' = [io EXCEPT !.p[w] = [IdleAttempt EXCEPT !.pc = "gathered"]]
                /\ UNCHANGED db
           ELSE \E r \in S :
                   /\ db' = ClaimUpdate(db, claim_next_pending_task, r, now)
                   /\ io' = [io EXCEPT !.p[w] = [IdleAttempt EXCEPT !.pc = "start", !.task = r],
                                       !.attempts[r] = @ + 1]
    /\ UNCHANGED storeRest

\* update_task_status(task_id, "uploading")
AttemptStart(w) ==
    /\ io.p[w].pc = "start"
    /\ db' = update_task_status(db, io.p[w].task, "uploading", NULL, NULL, NULL, NULL, FALSE)
    /\ io' = [io EXCEPT !.p[w].pc = "upload"]
    /\ UNCHANGED storeRest

\* The gather of the uploads, then update_task_status(task_id, "publishing").
AttemptUpload(w) ==
    /\ io.p[w].pc = "upload"
    /\ LET task  == io.p[w].task
           items == MediaItems(db, task)
       IN  \E ok \in [items -> BOOLEAN] :
              IF UploadRaised(ok)
              THEN /\ io' = [io EXCEPT !.p[w].pc = "except"]
                   /\ UNCHANGED db
              ELSE /\ db' = update_task_status(db, task, "publishing",
                                               primary_blossom_url(MediaUploads(items)),
                                               blossom_urls_arg(MediaUploads(items)),
                                               NULL, NULL, FALSE)
                   /\ io' = [io EXCEPT !.p[w].pc = "publish"]
    /\ UNCHANGED storeRest

\* successful_relays = await publish_to_relays(event)
AttemptPublish(w) ==
    /\ io.p[w].pc = "publish"
    /\ \E accepted \in SUBSET NOSTR_RELAYS :
          io' = IF NoRelayAccepted(accepted)
                THEN [io EXCEPT !.p[w].pc = "except"]
                ELSE [io EXCEPT !.p[w].pc = "complete",
                                !.published[io.p[w].task] = @ + 1]
    /\ UNCHANGED storeVars

\* update_task_status(task_id, "complete", ...), inside the try.
AttemptComplete(w) ==
    /\ io.p[w].pc = "complete"
    /\ \E outcome \in StoreOutcomes :
          LET task == io.p[w].task
              media_uploads == MediaUploads(MediaItems(db, task))
          IN  IF outcome = "committed"
              THEN /\ db' = update_task_status(db, task, "complete",
                                               primary_blossom_url(media_uploads),
                                               blossom_urls_arg(media_uploads),
                                               EventIdOfPost(task), NULL, FALSE)
                   /\ io' = [io EXCEPT !.p[w].pc = "finally"]
              ELSE /\ io' = [io EXCEPT !.p[w].pc = "except"]
                   /\ UNCHANGED db
    /\ UNCHANGED storeRest

\* except Exception: retry_count = get_task_retry_count(task_id)
AttemptExcept(w) ==
    /\ io.p[w].pc = "except"
    /\ io' = [io EXCEPT !.p[w].retry_count = get_task_retry_count(db, io.p[w].task),
                        !.p[w].pc = "retry"]
    /\ UNCHANGED storeVars

\* Back to 'pending' with retry_count + 1, or to 'error'.
AttemptRetry(w) ==
    /\ io.p[w].pc = "retry"
    /\ LET task == io.p[w].task
       IN  IF RetryAllowed(io.p[w].retry_count)
           THEN /\ db' = update_task_status(db, task, "pending",
                                            NULL, NULL, NULL, error_msg, TRUE)
                /\ io' = [io EXCEPT !.p[w].pc = "finally",
                                    !.unslept[w] = @ \cup {task}]
           ELSE /\ db' = update_task_status(db, task, "error", NULL, NULL, NULL,
                                            MaxRetriesExceeded(error_msg), FALSE)
                /\ io' = [io EXCEPT !.p[w].pc = "finally"]
    /\ UNCHANGED storeRest

\* finally: update_job_status(job_id); the coroutine returns True.
AttemptFinally(w) ==
    /\ io.p[w].pc = "finally"
    /\ db' = update_job_status(db, db.video_tasks[io.p[w].task].job_id, now)
    /\ io' = [io EXCEPT !.p[w].pc = "gathered", !.p[w].processed = TRUE]
    /\ UNCHANGED storeRest

\* The gather has returned: if not processed_any: await asyncio.sleep(...);
\* the next tick follows at once otherwise.
AttemptGathered(w) ==
    /\ io.p[w].pc = "gathered"
    /\ io' = [io EXCEPT !.p[w] = [IdleAttempt EXCEPT
                                    !.pc = IF io.p[w].processed THEN "claim" ELSE "sleep"]]
    /\ UNCHANGED storeVars

\* await asyncio.sleep(POLL_INTERVAL) returns.
AttemptSleep(w) ==
    /\ io.p[w].pc = "sleep"
    /\ io' = [io EXCEPT !.p[w].pc = "claim", !.unslept[w] = {}]
    /\ UNCHANGED storeVars

InitAttempts ==
    /\ db = ScenarioStore("tasks")
    /\ io = [p |-> [w \in Workers |-> IdleAttempt],
             attempts |-> [r \in RowIds |-> 0],
             published |-> [r \in RowIds |-> 0],
             unslept |-> [w \in Workers |-> {}]]
    /\ now = StartTime
    /\ worker = [w \in Workers |-> StartedWorker]
    /\ killed = 0
    /\ call = [c \in Callers |-> IdleCall]
    /\ returned = [n \in ClaimNames |-> [r \in RowIds |-> 0]]
    /\ lastOp = NoOp

AttemptStep(w) ==
    \/ AttemptClaim(w)
    \/ AttemptStart(w)
    \/ AttemptUpload(w)
    \/ AttemptPublish(w)
    \/ AttemptComplete(w)
    \/ AttemptExcept(w)
    \/ AttemptRetry(w)
    \/ AttemptFinally(w)
    \/ AttemptGathered(w)
    \/ AttemptSleep(w)

NextAttempts == \E w \in Workers : AttemptStep(w)

SpecAttempts == InitAttempts /\ [][NextAttempts]_vars

\* The same under a fair scheduler: the event loop of every worker process
\* goes on, no process being killed.
InitFairAttempts ==
    /\ db = [ScenarioStore("tasks") EXCEPT
               !.video_tasks = [r \in {1} |-> ScenarioStore("tasks").video_tasks[r]]]
    /\ io = [p |-> [w \in Workers |-> IdleAttempt],
             attempts |-> [r \in RowIds |-> 0],
             published |-> [r \in RowIds |-> 0],
             unslept |-> [w \in Workers |-> {}]]
    /\ now = StartTime
    /\ worker = [w \in Workers |-> StartedWorker]
    /\ killed = 0
    /\ call = [c \in Callers |-> IdleCall]
    /\ returned = [n \in ClaimNames |-> [r \in RowIds |-> 0]]
    /\ lastOp = NoOp

FairAttempts ==
    /\ InitFairAttempts
    /\ [][NextAttempts]_vars
    /\ \A w \in Workers : WF_vars(AttemptStep(w))

\* C31: a post whose attempts all fail is processed exactly MAX_RETRIES + 1
\* times before it is 'error': each of the first MAX_RETRIES failures puts
\* it back to 'pending' with retry_count one higher (a pending post has
\* failed as often as it was claimed), and the failure seen at
\* retry_count = MAX_RETRIES marks it 'error'.
C31_ErrorAfterMaxRetriesPlusOne ==
    \A r \in Rows(db, "video_tasks") :
        LET post == db.video_tasks[r]
        IN  /\ post.status = "error"
                => io.attempts[r] = MAX_RETRIES + 1 /\ post.retry_count = MAX_RETRIES
            /\ post.status = "pending" => post.retry_count = io.attempts[r]
            /\ post.retry_count <= MAX_RETRIES

C31_PostInErrorAfterFourAttempts ==
    \E r \in Rows(db, "video_tasks") :
        /\ db.video_tasks[r].status = "error"
        /\ io.attempts[r] = MAX_RETRIES + 1
        /\ io.published[r] = 0

\* C32: between a failed attempt of a post, which process_task put back to
\* 'pending', and the next claim of that post by the same worker loop the
\* loop sleeps a POLL_INTERVAL: a loop never holds a claimed post whose
\* attempt failed in it since it last slept.
C32_SleepBeforeReclaim ==
    \A w \in Workers :
        io.p[w].pc = "start" => io.p[w].task \notin io.unslept[w]

\* C36: once a relay has accepted the event of a post in some attempt, no
\* later attempt publishes an event for the post again, also when the store
\* write that follows the acceptance fails.
C36_PublishedAtMostOnce ==
    \A r \in RowIds : io.published[r] <= 1

\* C40: with a fair scheduler and no worker crash every pending post
\* eventually is 'complete' or 'error', whatever uploads and relays do, and
\* no post is claimed again and again: a post is claimed MAX_RETRIES + 1
\* times at most.
C40_PostsTerminate ==
    /\ \A r \in RowIds :
          (r \in Rows(db, "video_tasks") /\ db.video_tasks[r].status = "pending")
             ~> (r \in Rows(db, "video_tasks")
                   /\ db.video_tasks[r].status \in {"complete", "error"})
    /\ [](\A r \in RowIds : io.attempts[r] <= MAX_RETRIES + 1)

C40_CompleteAfterFailures ==
    \E r \in Rows(db, "video_tasks") :
        /\ db.video_tasks[r].status = "complete"
        /\ db.video_tasks[r].retry_count = MAX_RETRIES
        /\ \A w \in Workers : io.p[w].pc = "sleep"

\* C33: a proposal or gift that is 'ready' is never moved back to
\* 'pending' or 'processing' by a step of a worker (process_proposal,
\* process_gift, stale recovery), for every interleaving of the workers.
C33_ReadyNeverMovedBack ==
    [][\A k \in {"proposals", "gifts"}, r \in RowIds :
          (r \in Rows(db, k) /\ db[k][r].status = "ready" /\ r \in Rows(db', k))
             => db'[k][r].status \notin {"pending", "processing"}]_vars

\* C34: once an article is 'ready' with a blossom_image_url and a
\* non-empty inline_image_urls map, a later processing round of its
\* proposal or gift leaves its status, blossom_image_url, content_markdown
\* and inline_image_urls as they are.
C34_ReadyArticleKept ==
    [][\A t \in {"proposal_articles", "gift_articles"}, a \in RowIds :
          (/\ a \in Rows(db, t)
           /\ a \in Rows(db', t)
           /\ db[t][a].status = "ready"
           /\ db[t][a].blossom_image_url # NULL
           /\ db[t][a].inline_image_urls # NULL)
             => /\ db'[t][a].status = db[t][a].status
                /\ db'[t][a].blossom_image_url = db[t][a].blossom_image_url
                /\ db'[t][a].content_markdown = db[t][a].content_markdown
                /\ db'[t][a].inline_image_urls = db[t][a].inline_image_urls]_vars

\* C35: the upload_attempts of an article is incremented once at the start
\* of each processing round and never exceeds MAX_UPLOAD_ATTEMPTS, so that
\* a proposal or gift goes back to 'pending' because of its articles four
\* times at most and is 'ready' no later than its fifth round.
C35_AttemptsBounded ==
    \A t \in {"proposal_articles", "gift_articles"} :
        \A a \in Rows(db, t) : db[t][a].upload_attempts <= MAX_UPLOAD_ATTEMPTS

\* C37: a claimed profile is not left in processing (-1) when
\* process_profile returns: it is published (1) when a relay accepted the
\* event and has been put back to unpublished (0) otherwise.
C37_ProfileNotLeftProcessing ==
    [][\A w \in Workers :
          (/\ worker[w].pc \in {"process_profile", "profile_publish",
                                "profile_cache", "profile_write"}
           /\ worker'[w].pc = "proposal"
           /\ worker[w].held.item \in Rows(db', "jobs"))
             => db'.jobs[worker[w].held.item].profile_published =
                    IF worker[w].pc \in {"profile_cache", "profile_write"} THEN 1 ELSE 0]_vars

\* C38: the terminal states of a post are absorbing: once a post is
\* 'complete' or 'error' no claim, processor or recovery step of a worker
\* changes its status, retry_count or nostr_event_id.
C38_TerminalPostsAbsorbing ==
    [][\A r \in Rows(db, "video_tasks") :
          db.video_tasks[r].status \in {"complete", "error"}
             => /\ r \in Rows(db', "video_tasks")
                /\ db'.video_tasks[r].status = db.video_tasks[r].status
                /\ db'.video_tasks[r].retry_count = db.video_tasks[r].retry_count
                /\ db'.video_tasks[r].nostr_event_id = db.video_tasks[r].nostr_event_id]_vars

\* A post is 'complete', the other is 'error' after its retries, and the
\* workers have gone on to sleep.
C38_TerminalPostsAndWorkersAsleep ==
    /\ \E r \in Rows(db, "video_tasks") : db.video_tasks[r].status = "complete"
    /\ \E r \in Rows(db, "video_tasks") :
          db.video_tasks[r].status = "error" /\ db.video_tasks[r].retry_count = MAX_RETRIES
    /\ \A w \in Workers : worker[w].pc = "sleep"

\* C39: in every state a post has a nostr_event_id exactly when it is
\* 'complete', and a post that is 'pending' or 'error' after a failed
\* attempt has an error text; every status write of process_task sets
\* blossom_url, blossom_urls, nostr_event_id and error together, a column
\* left out of the call becoming NULL.
C39_EventIdIffComplete ==
    /\ [](\A r \in Rows(db, "video_tasks") :
             LET post == db.video_tasks[r]
             IN  /\ post.nostr_event_id # NULL <=> post.status = "complete"
                 /\ (post.status = "error" \/ (post.status = "pending" /\ post.retry_count > 0))
                       => post.error # NULL)
    /\ [][\A w \in Workers, s \in Slots :
             LET r == worker[w].slot[s].task
             IN  (/\ worker[w].slot[s].pc \in {"start", "upload", "complete", "retry"}
                  /\ worker'[w].slot[s].pc # worker[w].slot[s].pc
                  /\ db' # db)
                    => LET post == db'.video_tasks[r]
                       IN  /\ post.status \in {"uploading", "pending", "error"}
                              => post.blossom_url = NULL /\ post.blossom_urls = NULL
                           /\ post.status # "complete" => post.nostr_event_id = NULL
                           /\ post.status \in {"uploading", "publishing", "complete"}
                              => post.error = NULL]_vars

\* A post in 'error' with its text and without a URL, beside a 'complete'
\* post with its event id and without an error text.
C39_ErrorTextAndEventId ==
    /\ \E r \in Rows(db, "video_tasks") :
          /\ db.video_tasks[r].status = "error"
          /\ db.video_tasks[r].error = MaxRetriesExceeded(error_msg)
          /\ db.video_tasks[r].blossom_url = NULL
    /\ \E r \in Rows(db, "video_tasks") :
          /\ db.video_tasks[r].status = "complete"
          /\ db.video_tasks[r].nostr_event_id = EventIdOfPost(r)
          /\ db.video_tasks[r].error = NULL

====
